---- MODULE Spec2Model ----
(***************************************************************************)
(* rust-spanner-kv: an HTTP JSON key-value store backed by one Spanner     *)
(* table kv_store(id, data, created_at, updated_at).                       *)
(*                                                                         *)
(* Strings are sequences of one-character strings, so that parsing,        *)
(* formatting, LIKE matching and ordering are computed character by        *)
(* character.  Timestamps are natural numbers (commit instants).           *)
(***************************************************************************)
EXTENDS Integers, Sequences, FiniteSets, TLC

VARIABLES store, clock, written, resp, list, query, boot, cloud, callers

vars == <<store, clock, written, resp, list, query, boot, cloud, callers>>

(***************************************************************************)
(* Option values                                                           *)
(***************************************************************************)
None == [some |-> FALSE]
Some(x) == [some |-> TRUE, v |-> x]

(***************************************************************************)
(* Characters                                                              *)
(***************************************************************************)
HexLower == <<"0","1","2","3","4","5","6","7","8","9","a","b","c","d","e","f">>
HexUpper == <<"0","1","2","3","4","5","6","7","8","9","A","B","C","D","E","F">>

HexDigits == {HexLower[i] : i \in 1..16} \cup {HexUpper[i] : i \in 1..16}

HexTable == [c \in HexDigits |-> (CHOOSE i \in 1..16 : HexLower[i] = c \/ HexUpper[i] = c) - 1]

\* Value of a hexadecimal digit, -1 for any other character.
HexVal(c) == IF c \in HexDigits THEN HexTable[c] ELSE -1

\* Byte order of the characters that occur in keys and JSON object names.
Alphabet == <<"\"", "%", "-", "0","1","2","3","4","5","6","7","8","9", ":",
              "A","B","C","D","E","F", "\\", "_",
              "a","b","c","d","e","f","g","i","n","o","r","t","u","x","y","z","{","}">>

CodeTable == [c \in {Alphabet[i] : i \in 1..Len(Alphabet)} |->
                 CHOOSE i \in 1..Len(Alphabet) : Alphabet[i] = c]

CharCode(c) == CodeTable[c]

RECURSIVE StrLess(_, _)
\* Lexicographic (byte-wise) s < t.
StrLess(s, t) ==
    IF t = <<>> THEN FALSE
    ELSE IF s = <<>> THEN TRUE
    ELSE IF Head(s) = Head(t) THEN StrLess(Tail(s), Tail(t))
    ELSE CharCode(Head(s)) < CharCode(Head(t))

\* s starts with the literal characters of p.
StartsWith(s, p) == Len(p) <= Len(s) /\ SubSeq(s, 1, Len(p)) = p

RECURSIVE Concat(_)
\* Concatenation of a sequence of strings.
Concat(ss) == IF ss = <<>> THEN <<>> ELSE Head(ss) \o Concat(Tail(ss))

(***************************************************************************)
(* Uuid::parse_str and Uuid::to_string (Display, hyphenated lower case)    *)
(***************************************************************************)
HyphenPos == {9, 14, 19, 24}

UrnPrefix == <<"u","r","n",":","u","u","i","d",":">>

IsHexStr(s) == \A i \in 1..Len(s) : HexVal(s[i]) >= 0

RECURSIVE NibblesToBytes(_)
NibblesToBytes(ns) ==
    IF ns = <<>> THEN <<>>
    ELSE <<ns[1] * 16 + ns[2]>> \o NibblesToBytes(SubSeq(ns, 3, Len(ns)))

\* 32 hexadecimal digits, no hyphens.
parse_simple(s) ==
    IF Len(s) = 32 /\ IsHexStr(s)
    THEN Some(NibblesToBytes([i \in 1..32 |-> HexVal(s[i])]))
    ELSE None

\* 8-4-4-4-12 groups of hexadecimal digits of either case.
parse_hyphenated(s) ==
    IF /\ Len(s) = 36
       /\ \A i \in 1..36 : IF i \in HyphenPos THEN s[i] = "-" ELSE HexVal(s[i]) >= 0
    THEN LET digits == SelectSeq(s, LAMBDA c : c # "-")
         IN  Some(NibblesToBytes([i \in 1..32 |-> HexVal(digits[i])]))
    ELSE None

\* The id is 16 bytes; the result is None where the crate returns Err.
parse_str(s) ==
    CASE Len(s) = 32 -> parse_simple(s)
      [] Len(s) = 36 -> parse_hyphenated(s)
      [] Len(s) = 38 /\ s[1] = "{" /\ s[38] = "}" -> parse_hyphenated(SubSeq(s, 2, 37))
      [] Len(s) = 45 /\ SubSeq(s, 1, 9) = UrnPrefix -> parse_hyphenated(SubSeq(s, 10, 45))
      [] OTHER -> None

\* A rendering in upper-case digits.
to_string_upper(id) ==
    LET hex(i) == LET b == id[(i + 1) \div 2]
                  IN  HexUpper[(IF i % 2 = 1 THEN b \div 16 ELSE b % 16) + 1]
        digits == [i \in 1..32 |-> hex(i)]
    IN  SubSeq(digits, 1, 8) \o <<"-">> \o SubSeq(digits, 9, 12) \o <<"-">> \o
        SubSeq(digits, 13, 16) \o <<"-">> \o SubSeq(digits, 17, 20) \o <<"-">> \o
        SubSeq(digits, 21, 32)

\* Canonical text form: 36 characters, lower case, hyphens after 8, 12, 16, 20 digits.
to_string(id) ==
    LET hex(i) == LET b == id[(i + 1) \div 2]
                  IN  HexLower[(IF i % 2 = 1 THEN b \div 16 ELSE b % 16) + 1]
        digits == [i \in 1..32 |-> hex(i)]
    IN  SubSeq(digits, 1, 8) \o <<"-">> \o SubSeq(digits, 9, 12) \o <<"-">> \o
        SubSeq(digits, 13, 16) \o <<"-">> \o SubSeq(digits, 17, 20) \o <<"-">> \o
        SubSeq(digits, 21, 32)

(***************************************************************************)
(* serde_json: Value, to_string, from_str                                  *)
(*   [t |-> "null"]  [t |-> "bool", b]  [t |-> "num", n]  [t |-> "str", s] *)
(*   [t |-> "arr", a |-> sequence]  [t |-> "obj", o |-> name :> value]     *)
(***************************************************************************)
JNull == [t |-> "null"]
JBool(b) == [t |-> "bool", b |-> b]
JNum(n) == [t |-> "num", n |-> n]
JStr(s) == [t |-> "str", s |-> s]
JArr(a) == [t |-> "arr", a |-> a]
JObj(o) == [t |-> "obj", o |-> o]

Digits == <<"0","1","2","3","4","5","6","7","8","9">>

RECURSIVE NatToStr(_)
NatToStr(n) == IF n < 10 THEN <<Digits[n + 1]>> ELSE NatToStr(n \div 10) \o <<Digits[(n % 10) + 1]>>

IntToStr(n) == IF n < 0 THEN <<"-">> \o NatToStr(-n) ELSE NatToStr(n)

RECURSIVE EscapeStr(_)
\* Quotation mark and reverse solidus are written with a leading backslash.
EscapeStr(s) ==
    IF s = <<>> THEN <<>>
    ELSE (IF Head(s) \in {"\"", "\\"} THEN <<"\\", Head(s)>> ELSE <<Head(s)>>) \o EscapeStr(Tail(s))

QuoteStr(s) == <<"\"">> \o EscapeStr(s) \o <<"\"">>

RECURSIVE SortStrs(_)
\* The strings of a finite set in ascending byte order.
SortStrs(S) ==
    IF S = {} THEN <<>>
    ELSE LET m == CHOOSE x \in S : \A y \in S \ {x} : StrLess(x, y)
         IN  <<m>> \o SortStrs(S \ {m})

RECURSIVE json_to_string(_)
RECURSIVE JoinValues(_)
RECURSIVE JoinMembers(_, _)

\* Compact serialisation, object members in the map's (sorted) order.
json_to_string(v) ==
    CASE v.t = "null" -> <<"n","u","l","l">>
      [] v.t = "bool" -> IF v.b THEN <<"t","r","u","e">> ELSE <<"f","a","l","s","e">>
      [] v.t = "num"  -> IntToStr(v.n)
      [] v.t = "str"  -> QuoteStr(v.s)
      [] v.t = "arr"  -> <<"[">> \o JoinValues(v.a) \o <<"]">>
      [] v.t = "obj"  -> <<"{">> \o JoinMembers(v.o, SortStrs(DOMAIN v.o)) \o <<"}">>

JoinValues(a) ==
    IF a = <<>> THEN <<>>
    ELSE json_to_string(Head(a)) \o (IF Len(a) > 1 THEN <<",">> ELSE <<>>) \o JoinValues(Tail(a))

JoinMembers(o, names) ==
    IF names = <<>> THEN <<>>
    ELSE QuoteStr(Head(names)) \o <<":">> \o json_to_string(o[Head(names)]) \o
         (IF Len(names) > 1 THEN <<",">> ELSE <<>>) \o JoinMembers(o, Tail(names))

\* Parse results: [ok |-> TRUE, v |-> value, rest |-> unread input] or Fail.
Fail == [ok |-> FALSE]
Parsed(v, rest) == [ok |-> TRUE, v |-> v, rest |-> rest]

DigitVal(c) == IF c \in {Digits[i] : i \in 1..10} THEN HexTable[c] ELSE -1

RECURSIVE ParseDigits(_, _)
\* Reads the longest run of digits of s, accumulating onto acc.
ParseDigits(s, acc) ==
    IF s # <<>> /\ DigitVal(Head(s)) >= 0
    THEN ParseDigits(Tail(s), acc * 10 + DigitVal(Head(s)))
    ELSE Parsed(acc, s)

\* An integer: optional minus, then 0 or a run of digits without leading zero.
ParseNumber(s) ==
    LET neg  == s # <<>> /\ Head(s) = "-"
        body == IF neg THEN Tail(s) ELSE s
    IN  IF body = <<>> \/ DigitVal(Head(body)) < 0 THEN Fail
        ELSE IF Head(body) = "0"
             THEN IF Len(body) > 1 /\ DigitVal(body[2]) >= 0 THEN Fail
                  ELSE Parsed(JNum(0), Tail(body))
             ELSE LET r == ParseDigits(body, 0)
                  IN  Parsed(JNum(IF neg THEN -r.v ELSE r.v), r.rest)

RECURSIVE ParseStrBody(_, _)
\* s is the input after the opening quotation mark.
ParseStrBody(s, acc) ==
    IF s = <<>> THEN Fail
    ELSE IF Head(s) = "\"" THEN Parsed(acc, Tail(s))
    ELSE IF Head(s) = "\\"
         THEN IF Len(s) >= 2 /\ s[2] \in {"\"", "\\"}
              THEN ParseStrBody(SubSeq(s, 3, Len(s)), Append(acc, s[2]))
              ELSE Fail
    ELSE ParseStrBody(Tail(s), Append(acc, Head(s)))

ParseString(s) ==
    IF s # <<>> /\ Head(s) = "\"" THEN ParseStrBody(Tail(s), <<>>) ELSE Fail

ParseLiteral(s, word, v) ==
    IF StartsWith(s, word) THEN Parsed(v, SubSeq(s, Len(word) + 1, Len(s))) ELSE Fail

RECURSIVE ParseValue(_)
RECURSIVE ParseElements(_, _)
RECURSIVE ParseMembers(_, _)

ParseValue(s) ==
    IF s = <<>> THEN Fail
    ELSE CASE Head(s) = "n" -> ParseLiteral(s, <<"n","u","l","l">>, JNull)
           [] Head(s) = "t" -> ParseLiteral(s, <<"t","r","u","e">>, JBool(TRUE))
           [] Head(s) = "f" -> ParseLiteral(s, <<"f","a","l","s","e">>, JBool(FALSE))
           [] Head(s) = "\"" -> LET r == ParseString(s)
                                IN  IF r.ok THEN Parsed(JStr(r.v), r.rest) ELSE Fail
           [] Head(s) = "[" -> IF Len(s) >= 2 /\ s[2] = "]"
                               THEN Parsed(JArr(<<>>), SubSeq(s, 3, Len(s)))
                               ELSE ParseElements(Tail(s), <<>>)
           [] Head(s) = "{" -> IF Len(s) >= 2 /\ s[2] = "}"
                               THEN Parsed(JObj(<<>>), SubSeq(s, 3, Len(s)))
                               ELSE ParseMembers(Tail(s), <<>>)
           [] OTHER -> ParseNumber(s)

\* s is positioned at an element; acc holds the elements read so far.
ParseElements(s, acc) ==
    LET r == ParseValue(s)
    IN  IF ~r.ok \/ r.rest = <<>> THEN Fail
        ELSE IF Head(r.rest) = "," THEN ParseElements(Tail(r.rest), Append(acc, r.v))
        ELSE IF Head(r.rest) = "]" THEN Parsed(JArr(Append(acc, r.v)), Tail(r.rest))
        ELSE Fail

\* s is positioned at a member name; a repeated name keeps the last value.
ParseMembers(s, acc) ==
    LET k == ParseString(s)
    IN  IF ~k.ok \/ k.rest = <<>> \/ Head(k.rest) # ":" THEN Fail
        ELSE LET r == ParseValue(Tail(k.rest))
                 o == [n \in (DOMAIN acc) \cup {k.v} |-> IF n = k.v THEN r.v ELSE acc[n]]
             IN  IF ~r.ok \/ r.rest = <<>> THEN Fail
                 ELSE IF Head(r.rest) = "," THEN ParseMembers(Tail(r.rest), o)
                 ELSE IF Head(r.rest) = "}" THEN Parsed(JObj(o), Tail(r.rest))
                 ELSE Fail

\* The whole text must be one value; None where serde_json returns Err.
json_from_str(s) ==
    LET r == ParseValue(s)
    IN  IF r.ok /\ r.rest = <<>> THEN Some(r.v) ELSE None

(***************************************************************************)
(* The kv_store table and the commit clock                                 *)
(*   store   : key |-> [data, created_at, updated_at], data the JSON text  *)
(*   clock   : the latest commit timestamp the store has issued            *)
(*   written : key |-> [v, ts], the value and commit instant of the last   *)
(*             acknowledged upsert of the key (history)                    *)
(***************************************************************************)
MaxClock == 2

\* A timestamp taken from the caller's clock, which may run behind the store's.
CommitTimes_caller_clock(st, now, key) == 1..MaxClock

\* Commit timestamps never run backwards; two commits that write the same
\* row have distinct timestamps, commits of different rows may share one.
CommitTimes(st, now, key) ==
    {ts \in {now, now + 1} :
        /\ ts >= 1
        /\ ts <= MaxClock
        /\ key \in DOMAIN st => ts > st[key].updated_at}

\* A write that replaces the table's rows by the written one.
insert_or_update_replacing(st, key, row) == key :> row

\* A write that also stamps every other row with the written row's updated_at.
insert_or_update_touching(st, key, row) ==
    [k \in (DOMAIN st) \cup {key} |->
        IF k = key THEN row ELSE [st[k] EXCEPT !.updated_at = row.updated_at]]

\* insert_or_update of one row: the row is replaced whole.
insert_or_update(st, key, row) ==
    [k \in (DOMAIN st) \cup {key} |-> IF k = key THEN row ELSE st[k]]

\* An insert that leaves an existing row alone.
upsert_insert_only(st, id, data, ts) ==
    IF to_string(id) \in DOMAIN st THEN st
    ELSE insert_or_update(st, to_string(id),
             [data |-> json_to_string(data), created_at |-> ts, updated_at |-> ts])

\* An update that keeps the created_at of an existing row.
upsert_keep_created(st, id, data, ts) ==
    insert_or_update(st, to_string(id),
        [data |-> json_to_string(data),
         created_at |-> IF to_string(id) \in DOMAIN st THEN st[to_string(id)].created_at ELSE ts,
         updated_at |-> ts])

\* An update that refreshes created_at and leaves updated_at as it was.
upsert_stale_updated(st, id, data, ts) ==
    insert_or_update(st, to_string(id),
        [data |-> json_to_string(data),
         created_at |-> ts,
         updated_at |-> IF to_string(id) \in DOMAIN st THEN st[to_string(id)].updated_at ELSE ts])

\* SpannerClient::upsert: both timestamp columns take the commit timestamp.
upsert(st, id, data, ts) ==
    LET id_str   == to_string(id)
        data_str == json_to_string(data)
    IN  insert_or_update(st, id_str,
            [data |-> data_str, created_at |-> ts, updated_at |-> ts])

\* A read that treats an empty result set as a failure.
read_missing_is_error(st, id) ==
    IF to_string(id) \in DOMAIN st
    THEN LET data == json_from_str(st[to_string(id)].data)
         IN  IF data.some THEN [ok |-> TRUE, v |-> Some(data.v)] ELSE [ok |-> FALSE]
    ELSE [ok |-> FALSE]

\* SpannerClient::read: Ok(None) without a row, Err when the text does not parse.
read(st, id) ==
    LET id_str == to_string(id)
    IN  IF id_str \in DOMAIN st
        THEN LET data == json_from_str(st[id_str].data)
             IN  IF data.some THEN [ok |-> TRUE, v |-> Some(data.v)] ELSE [ok |-> FALSE]
        ELSE [ok |-> TRUE, v |-> None]

(***************************************************************************)
(* ApiError and its HTTP rendering                                         *)
(***************************************************************************)
InvalidUuid(s) == [kind |-> "InvalidUuid", arg |-> s]
KeyNotFound(id) == [kind |-> "KeyNotFound", arg |-> id]
DatabaseError(ctx) == [kind |-> "DatabaseError", arg |-> ctx]
InvalidQueryParam(s) == [kind |-> "InvalidQueryParam", arg |-> s]

\* The rendering with the KeyNotFound arm given the InvalidUuid status.
into_response_missing_400(err) ==
    CASE err.kind = "InvalidUuid" ->
            [status |-> 400,
             body |-> [error |-> [text |-> "Invalid UUID format: expected format like '550e8400-e29b-41d4-a716-446655440000', got ",
                                  arg |-> err.arg]]]
      [] err.kind = "KeyNotFound" ->
            [status |-> 400,
             body |-> [error |-> [text |-> "Key not found: ", arg |-> to_string(err.arg)]]]
      [] err.kind = "DatabaseError" ->
            [status |-> 500,
             body |-> [error |-> [text |-> "Database error: ", cause |-> err.arg]]]
      [] err.kind = "InvalidQueryParam" ->
            [status |-> 400,
             body |-> [error |-> [text |-> "Invalid query parameter: sort must be one of: key_asc, key_desc, created_asc, created_desc, updated_asc, updated_desc, got ",
                                  value |-> err.arg]]]

\* The rendering with a store failure reported as unavailable, status and all.
into_response_db_unavailable(err) ==
    CASE err.kind = "InvalidUuid" ->
            [status |-> 400,
             body |-> [error |-> [text |-> "Invalid UUID format: expected format like '550e8400-e29b-41d4-a716-446655440000', got ",
                                  arg |-> err.arg]]]
      [] err.kind = "KeyNotFound" ->
            [status |-> 404,
             body |-> [error |-> [text |-> "Key not found: ", arg |-> to_string(err.arg)]]]
      [] err.kind = "DatabaseError" ->
            [status |-> 503,
             body |-> [status |-> "unavailable", error |-> [text |-> "Database error: ", cause |-> err.arg]]]
      [] err.kind = "InvalidQueryParam" ->
            [status |-> 400,
             body |-> [error |-> [text |-> "Invalid query parameter: sort must be one of: key_asc, key_desc, created_asc, created_desc, updated_asc, updated_desc, got ",
                                  value |-> err.arg]]]

\* The rendering with the InvalidUuid arm given the DatabaseError status.
into_response_uuid_500(err) ==
    CASE err.kind = "InvalidUuid" ->
            [status |-> 500,
             body |-> [error |-> [text |-> "Invalid UUID format: expected format like '550e8400-e29b-41d4-a716-446655440000', got ",
                                  arg |-> err.arg]]]
      [] err.kind = "KeyNotFound" ->
            [status |-> 404,
             body |-> [error |-> [text |-> "Key not found: ", arg |-> to_string(err.arg)]]]
      [] OTHER ->
            [status |-> 500,
             body |-> [error |-> [text |-> "Database error: ", cause |-> err.arg]]]

\* The message is the fixed text followed by the argument.
into_response(err) ==
    CASE err.kind = "InvalidUuid" ->
            [status |-> 400,
             body |-> [error |-> [text |-> "Invalid UUID format: expected format like '550e8400-e29b-41d4-a716-446655440000', got ",
                                  arg |-> err.arg]]]
      [] err.kind = "KeyNotFound" ->
            [status |-> 404,
             body |-> [error |-> [text |-> "Key not found: ", arg |-> to_string(err.arg)]]]
      [] err.kind = "DatabaseError" ->
            [status |-> 500,
             body |-> [error |-> [text |-> "Database error: ", cause |-> err.arg]]]
      [] err.kind = "InvalidQueryParam" ->
            [status |-> 400,
             body |-> [error |-> [text |-> "Invalid query parameter: sort must be one of: key_asc, key_desc, created_asc, created_desc, updated_asc, updated_desc, got ",
                                  value |-> err.arg]]]

\* One call of a SpannerClient method and whether the store answered it.
Call(op, ok) == [op |-> op, ok |-> ok]

\* The response slot: the request, its outcome and the store calls it made.
Response(op, req, r, calls) ==
    [op |-> op, req |-> req, status |-> r.status, body |-> r.body, calls |-> calls]

NoResponse == [op |-> "none", req |-> [none |-> TRUE], status |-> 0, body |-> [none |-> TRUE], calls |-> <<>>]

\* The Json extractor refuses a body that is not JSON before the handler runs.
JsonRejection == [status |-> 400, body |-> [text |-> "Failed to parse the request body as JSON"]]

\* The Json extractor reads the body only of a request that declares JSON.
json_content_type(content_type) == content_type.some /\ content_type.v = "application/json"

MissingJsonContentType ==
    [status |-> 415, body |-> [text |-> "Expected request with Content-Type: application/json"]]

\* The Query extractor reads limit and offset as unsigned integers.
query_accepts(q) ==
    /\ q.limit.some => q.limit.v >= 0
    /\ q.offset.some => q.offset.v >= 0

QueryRejection == [status |-> 400, body |-> [text |-> "Failed to deserialize query string"]]

Idle == [phase |-> "idle"]

(***************************************************************************)
(* SortOrder and the two statements of list_all                            *)
(***************************************************************************)
SortOrders == {"KeyAsc", "KeyDesc", "CreatedAsc", "CreatedDesc", "UpdatedAsc", "UpdatedDesc"}

\* The fragments with the direction of CreatedDesc and UpdatedDesc turned.
to_sql_desc_as_asc(sort) ==
    CASE sort = "KeyAsc"      -> [col |-> "id", dir |-> "ASC"]
      [] sort = "KeyDesc"     -> [col |-> "id", dir |-> "DESC"]
      [] sort = "CreatedAsc"  -> [col |-> "created_at", dir |-> "ASC"]
      [] sort = "CreatedDesc" -> [col |-> "created_at", dir |-> "ASC"]
      [] sort = "UpdatedAsc"  -> [col |-> "updated_at", dir |-> "ASC"]
      [] sort = "UpdatedDesc" -> [col |-> "updated_at", dir |-> "ASC"]

\* The ORDER BY fragment: column and direction.
to_sql(sort) ==
    CASE sort = "KeyAsc"      -> [col |-> "id", dir |-> "ASC"]
      [] sort = "KeyDesc"     -> [col |-> "id", dir |-> "DESC"]
      [] sort = "CreatedAsc"  -> [col |-> "created_at", dir |-> "ASC"]
      [] sort = "CreatedDesc" -> [col |-> "created_at", dir |-> "DESC"]
      [] sort = "UpdatedAsc"  -> [col |-> "updated_at", dir |-> "ASC"]
      [] sort = "UpdatedDesc" -> [col |-> "updated_at", dir |-> "DESC"]

\* i64::MAX, the limit written when only an offset is given.  The checker's
\* integers are 32 bits wide, so the largest of those stands for it; either
\* exceeds every row count.
I64Max == 2147483647

\* format!("{}%", prefix), bound to @prefix of "WHERE id LIKE @prefix".
prefix_pattern(prefix) == IF prefix.some THEN Some(prefix.v \o <<"%">>) ELSE None

\* SELECT COUNT(*) FROM kv_store [WHERE id LIKE @prefix]
count_stmt(prefix) == [where |-> prefix_pattern(prefix)]

\* The data statement without the filter of the count statement.
data_stmt_no_where(prefix, sort, limit, offset) ==
    [where  |-> None,
     order  |-> to_sql(sort),
     limit  |-> IF limit.some THEN limit
                ELSE IF offset > 0 THEN Some(I64Max) ELSE None,
     offset |-> IF offset > 0 THEN Some(offset) ELSE None]

\* The data statement with OFFSET written only next to a caller's LIMIT.
data_stmt_offset_needs_limit(prefix, sort, limit, offset) ==
    [where  |-> prefix_pattern(prefix),
     order  |-> to_sql(sort),
     limit  |-> limit,
     offset |-> IF limit.some /\ offset > 0 THEN Some(offset) ELSE None]

\* SELECT id, data, created_at, updated_at FROM kv_store [WHERE id LIKE @prefix]
\* ORDER BY ... [LIMIT n [OFFSET m]]
data_stmt(prefix, sort, limit, offset) ==
    [where  |-> prefix_pattern(prefix),
     order  |-> to_sql(sort),
     limit  |-> IF limit.some THEN limit
                ELSE IF offset > 0 THEN Some(I64Max) ELSE None,
     offset |-> IF offset > 0 THEN Some(offset) ELSE None]

(***************************************************************************)
(* The store's evaluation of the statements                                *)
(***************************************************************************)
RECURSIVE LikeMatch(_, _)
\* SQL LIKE: % matches any run of characters, _ any one character.
LikeMatch(pat, s) ==
    IF pat = <<>> THEN s = <<>>
    ELSE IF Head(pat) = "%"
         THEN LikeMatch(Tail(pat), s) \/ (s # <<>> /\ LikeMatch(pat, Tail(s)))
    ELSE IF Head(pat) = "_"
         THEN s # <<>> /\ LikeMatch(Tail(pat), Tail(s))
    ELSE s # <<>> /\ Head(s) = Head(pat) /\ LikeMatch(Tail(pat), Tail(s))

Selected(st, where) == {k \in DOMAIN st : where.some => LikeMatch(where.v, k)}

ExecCount(st, stmt) == Cardinality(Selected(st, stmt.where))

\* Row k1 may directly precede row k2 under the ORDER BY fragment.
InOrder(st, order, k1, k2) ==
    LET le(a, b) == IF order.col = "id" THEN a = b \/ StrLess(a, b)
                    ELSE st[a][order.col] <= st[b][order.col]
    IN  IF order.dir = "ASC" THEN le(k1, k2) ELSE le(k2, k1)

\* Every arrangement of the selected keys that ORDER BY allows: rows that
\* compare equal come in any order.
Orderings(st, keys, order) ==
    LET n == Cardinality(keys)
    IN  {o \in [1..n -> keys] :
            /\ \A i, j \in 1..n : i # j => o[i] # o[j]
            /\ \A i \in 1..(n - 1) : InOrder(st, order, o[i], o[i + 1])}

Min(a, b) == IF a <= b THEN a ELSE b

\* A window that takes LIMIT 0 for no limit.
Window_zero_unlimited(rows, limit, offset) ==
    LET skip == IF offset.some THEN Min(offset.v, Len(rows)) ELSE 0
        rest == SubSeq(rows, skip + 1, Len(rows))
    IN  IF limit.some /\ limit.v > 0 THEN SubSeq(rest, 1, Min(limit.v, Len(rest))) ELSE rest

\* OFFSET skips rows, then LIMIT bounds what is left.
Window(rows, limit, offset) ==
    LET skip == IF offset.some THEN Min(offset.v, Len(rows)) ELSE 0
        rest == SubSeq(rows, skip + 1, Len(rows))
    IN  IF limit.some THEN SubSeq(rest, 1, Min(limit.v, Len(rest))) ELSE rest

\* The possible row streams of the data statement, rows as
\* [id, data, created_at, updated_at].
ExecData(st, stmt) ==
    LET row(k) == [id |-> k, data |-> st[k].data,
                   created_at |-> st[k].created_at, updated_at |-> st[k].updated_at]
    IN  {Window([i \in 1..Len(o) |-> row(o[i])], stmt.limit, stmt.offset) :
            o \in Orderings(st, Selected(st, stmt.where), stmt.order)}

\* The row loop of list_all: None when some row's JSON text does not parse.
KvEntries(rows) ==
    LET values == [i \in 1..Len(rows) |-> json_from_str(rows[i].data)]
    IN  IF \A i \in 1..Len(rows) : values[i].some
        THEN Some([i \in 1..Len(rows) |->
                     [key |-> rows[i].id, value |-> values[i].v,
                      created_at |-> rows[i].created_at, updated_at |-> rows[i].updated_at]])
        ELSE None

(***************************************************************************)
(* GET /kv                                                                 *)
(*   query : the query string the listing client sends                     *)
(*   list  : Idle, or the list_all call that has read its count and awaits *)
(*           its data read                                                 *)
(***************************************************************************)
\* A parse that falls back to the default for a token it does not know.
parse_sort_lenient(sort) ==
    IF ~sort.some THEN Some("KeyAsc")
    ELSE CASE sort.v = "key_asc"      -> Some("KeyAsc")
           [] sort.v = "key_desc"     -> Some("KeyDesc")
           [] sort.v = "created_asc"  -> Some("CreatedAsc")
           [] sort.v = "created_desc" -> Some("CreatedDesc")
           [] sort.v = "updated_asc"  -> Some("UpdatedAsc")
           [] sort.v = "updated_desc" -> Some("UpdatedDesc")
           [] OTHER -> Some("KeyAsc")

\* The sort parameter of list_handler: exact match, None for any other string.
parse_sort(sort) ==
    IF ~sort.some THEN Some("KeyAsc")
    ELSE CASE sort.v = "key_asc"      -> Some("KeyAsc")
           [] sort.v = "key_desc"     -> Some("KeyDesc")
           [] sort.v = "created_asc"  -> Some("CreatedAsc")
           [] sort.v = "created_desc" -> Some("CreatedDesc")
           [] sort.v = "updated_asc"  -> Some("UpdatedAsc")
           [] sort.v = "updated_desc" -> Some("UpdatedDesc")
           [] OTHER -> None

\* A count read that counts the rows of the requested page.
list_count_of_page(storeOk) ==
    LET sort == parse_sort(query.sort)
        offset == IF query.offset.some THEN query.offset.v ELSE 0
        count == ExecCount(store, count_stmt(query.prefix))
        rest == IF count > offset THEN count - offset ELSE 0
    IN  /\ list = Idle
        /\ UNCHANGED <<store, clock, written, query>>
        /\ IF ~query_accepts(query)
           THEN /\ resp' = Response("list", query, QueryRejection, <<>>)
                /\ list' = Idle
           ELSE IF ~sort.some
           THEN /\ resp' = Response("list", query, into_response(InvalidQueryParam(query.sort.v)), <<>>)
                /\ list' = Idle
           ELSE IF ~storeOk
           THEN /\ resp' = Response("list", query,
                               into_response(DatabaseError("Failed to execute count query")),
                               <<Call("count", FALSE)>>)
                /\ list' = Idle
           ELSE /\ list' = [phase |-> "counted", sort |-> sort.v,
                            limit |-> query.limit, offset |-> offset,
                            total_count |-> IF query.limit.some THEN Min(query.limit.v, rest) ELSE rest]
                /\ resp' = NoResponse

\* list_handler up to and including the count read of list_all.
list_count(storeOk) ==
    LET sort == parse_sort(query.sort)
    IN  /\ list = Idle
        /\ UNCHANGED <<store, clock, written, query>>
        /\ IF ~query_accepts(query)
           THEN /\ resp' = Response("list", query, QueryRejection, <<>>)
                /\ list' = Idle
           ELSE IF ~sort.some
           THEN /\ resp' = Response("list", query, into_response(InvalidQueryParam(query.sort.v)), <<>>)
                /\ list' = Idle
           ELSE IF ~storeOk
           THEN /\ resp' = Response("list", query,
                               into_response(DatabaseError("Failed to execute count query")),
                               <<Call("count", FALSE)>>)
                /\ list' = Idle
           ELSE /\ list' = [phase |-> "counted", sort |-> sort.v,
                            limit |-> query.limit,
                            offset |-> IF query.offset.some THEN query.offset.v ELSE 0,
                            total_count |-> ExecCount(store, count_stmt(query.prefix))]
                /\ resp' = NoResponse

\* A data read that counts again instead of keeping the count read's number.
list_data_recount(storeOk) ==
    /\ list # Idle
    /\ UNCHANGED <<store, clock, written, query>>
    /\ list' = Idle
    /\ IF ~storeOk
       THEN resp' = Response("list", query,
                        into_response(DatabaseError("Failed to execute data query")),
                        <<Call("count", TRUE), Call("data", FALSE)>>)
       ELSE \E rows \in ExecData(store, data_stmt(query.prefix, list.sort, list.limit, list.offset)) :
               LET entries == KvEntries(rows)
               IN  IF ~entries.some
                   THEN resp' = Response("list", query,
                                    into_response(DatabaseError("Failed to deserialize JSON data")),
                                    <<Call("count", TRUE), Call("data", TRUE)>>)
                   ELSE resp' = Response("list", query,
                                    [status |-> 200,
                                     body |-> [data |-> entries.v,
                                               total_count |-> ExecCount(store, count_stmt(query.prefix))]],
                                    <<Call("count", TRUE), Call("data", TRUE)>>)

\* The data read of list_all and the rest of list_handler.
list_data(storeOk) ==
    /\ list # Idle
    /\ UNCHANGED <<store, clock, written, query>>
    /\ list' = Idle
    /\ IF ~storeOk
       THEN resp' = Response("list", query,
                        into_response(DatabaseError("Failed to execute data query")),
                        <<Call("count", TRUE), Call("data", FALSE)>>)
       ELSE \E rows \in ExecData(store, data_stmt(query.prefix, list.sort, list.limit, list.offset)) :
               LET entries == KvEntries(rows)
               IN  IF ~entries.some
                   THEN resp' = Response("list", query,
                                    into_response(DatabaseError("Failed to deserialize JSON data")),
                                    <<Call("count", TRUE), Call("data", TRUE)>>)
                   ELSE resp' = Response("list", query,
                                    [status |-> 200,
                                     body |-> [data |-> entries.v, total_count |-> list.total_count]],
                                    <<Call("count", TRUE), Call("data", TRUE)>>)

(***************************************************************************)
(* Request inputs                                                          *)
(***************************************************************************)
Rep(c, n) == [i \in 1..n |-> c]

\* A 36-character hyphenated string of digit c whose last digit is d.
Hyph(c, d) ==
    Rep(c, 8) \o <<"-">> \o Rep(c, 4) \o <<"-">> \o Rep(c, 4) \o <<"-">> \o Rep(c, 4) \o
    <<"-">> \o Rep(c, 11) \o <<d>>

IdA == Hyph("a", "a")
IdB == Hyph("b", "0")
IdC == Hyph("a", "1")

PathInputs ==
    { IdA, IdB,
      Hyph("A", "A"),                             \* upper case
      Rep("a", 32),                               \* no hyphens
      <<"{">> \o IdA \o <<"}">>,                  \* braced
      UrnPrefix \o IdB,                           \* URN
      <<"n","o","t","-","a","-","u","u","i","d">>,
      Rep("a", 8) \o <<"_">> \o SubSeq(IdA, 10, 36),   \* 36 characters, misplaced separator
      Hyph("g", "g") }                            \* not hexadecimal

BodyInputs ==
    { <<"{","\"","a","\"",":","1","}">>,                          \* {"a":1}
      <<"[","t","r","u","e",",","n","u","l","l",",","\"","x","\\","\"","y","\"","]">>,  \* [true,null,"x\"y"]
      <<"-","4","2">>,                                            \* -42
      <<"{","\"","a","\"",":">> }                                 \* truncated

\* The keys the list requests are run against.
ListIds == {IdA, IdB, IdC}

\* Uuid::parse_str of each path segment and the Json extractor's reading of
\* each body, computed once.
PathUuid == [s \in PathInputs \cup ListIds |-> parse_str(s)]

BodyJson == [b \in BodyInputs |-> json_from_str(b)]

(***************************************************************************)
(* PUT /kv/{id}                                                            *)
(***************************************************************************)
\* A handler whose failed upsert leaves the value behind without timestamps.
put_handler_partial_write(id_str, content_type, body, storeOk) ==
    LET data == BodyJson[body]
        id   == PathUuid[id_str]
        req  == [id |-> id_str, content_type |-> content_type, body |-> body]
    IN  IF ~json_content_type(content_type)
        THEN /\ resp' = Response("put", req, MissingJsonContentType, <<>>)
             /\ UNCHANGED <<store, clock, written>>
        ELSE IF ~data.some
        THEN /\ resp' = Response("put", req, JsonRejection, <<>>)
             /\ UNCHANGED <<store, clock, written>>
        ELSE IF ~id.some
        THEN /\ resp' = Response("put", req, into_response(InvalidUuid(id_str)), <<>>)
             /\ UNCHANGED <<store, clock, written>>
        ELSE IF ~storeOk
        THEN /\ resp' = Response("put", req,
                            into_response(DatabaseError("Failed to upsert data to Spanner")),
                            <<Call("upsert", FALSE)>>)
             /\ store' = insert_or_update(store, to_string(id.v),
                            [data |-> json_to_string(data.v), created_at |-> 0, updated_at |-> 0])
             /\ UNCHANGED <<clock, written>>
        ELSE LET key == to_string(id.v)
             IN  \E ts \in CommitTimes(store, clock, key) :
                    /\ store' = upsert(store, id.v, data.v, ts)
                    /\ clock' = ts
                    /\ written' = insert_or_update(written, key, [v |-> data.v, ts |-> ts])
                    /\ resp' = Response("put", req,
                                   [status |-> 200, body |-> [id |-> key]],
                                   <<Call("upsert", TRUE)>>)

put_handler(id_str, content_type, body, storeOk) ==
    LET data == BodyJson[body]
        id   == PathUuid[id_str]
        req  == [id |-> id_str, content_type |-> content_type, body |-> body]
    IN  IF ~json_content_type(content_type)
        THEN /\ resp' = Response("put", req, MissingJsonContentType, <<>>)
             /\ UNCHANGED <<store, clock, written>>
        ELSE IF ~data.some
        THEN /\ resp' = Response("put", req, JsonRejection, <<>>)
             /\ UNCHANGED <<store, clock, written>>
        ELSE IF ~id.some
        THEN /\ resp' = Response("put", req, into_response(InvalidUuid(id_str)), <<>>)
             /\ UNCHANGED <<store, clock, written>>
        ELSE IF ~storeOk
        THEN /\ resp' = Response("put", req,
                            into_response(DatabaseError("Failed to upsert data to Spanner")),
                            <<Call("upsert", FALSE)>>)
             /\ UNCHANGED <<store, clock, written>>
        ELSE LET key == to_string(id.v)
             IN  \E ts \in CommitTimes(store, clock, key) :
                    /\ store' = upsert(store, id.v, data.v, ts)
                    /\ clock' = ts
                    /\ written' = insert_or_update(written, key, [v |-> data.v, ts |-> ts])
                    /\ resp' = Response("put", req,
                                   [status |-> 200, body |-> [id |-> key]],
                                   <<Call("upsert", TRUE)>>)

(***************************************************************************)
(* GET /kv/{id}                                                            *)
(***************************************************************************)
\* A handler that answers not-found, without reading, while a list request is
\* between its reads.
get_handler_busy(id_str, storeOk) ==
    LET id == PathUuid[id_str]
    IN  /\ UNCHANGED <<store, clock, written>>
        /\ IF ~id.some
           THEN resp' = Response("get", [id |-> id_str], into_response(InvalidUuid(id_str)), <<>>)
           ELSE IF ~storeOk
           THEN resp' = Response("get", [id |-> id_str],
                            into_response(DatabaseError("Failed to query data from Spanner")),
                            <<Call("read", FALSE)>>)
           ELSE LET r == read(store, id.v)
                IN  IF ~r.ok
                    THEN resp' = Response("get", [id |-> id_str],
                                     into_response(DatabaseError("Failed to deserialize JSON data")),
                                     <<Call("read", TRUE)>>)
                    ELSE IF r.v.some /\ list = Idle
                    THEN resp' = Response("get", [id |-> id_str],
                                     [status |-> 200,
                                      body |-> [id |-> to_string(id.v), data |-> r.v.v]],
                                     <<Call("read", TRUE)>>)
                    ELSE resp' = Response("get", [id |-> id_str], into_response(KeyNotFound(id.v)),
                                     <<Call("read", TRUE)>>)

\* A handler that stamps the entry it reads.
get_handler_touching(id_str, storeOk) ==
    LET id == PathUuid[id_str]
    IN  IF ~id.some
        THEN /\ resp' = Response("get", [id |-> id_str], into_response(InvalidUuid(id_str)), <<>>)
             /\ UNCHANGED <<store, clock, written>>
        ELSE IF ~storeOk
        THEN /\ resp' = Response("get", [id |-> id_str],
                            into_response(DatabaseError("Failed to query data from Spanner")),
                            <<Call("read", FALSE)>>)
             /\ UNCHANGED <<store, clock, written>>
        ELSE LET r == read(store, id.v)
             IN  IF ~r.ok
                 THEN /\ resp' = Response("get", [id |-> id_str],
                                     into_response(DatabaseError("Failed to deserialize JSON data")),
                                     <<Call("read", TRUE)>>)
                      /\ UNCHANGED <<store, clock, written>>
                 ELSE IF r.v.some
                 THEN /\ resp' = Response("get", [id |-> id_str],
                                     [status |-> 200,
                                      body |-> [id |-> to_string(id.v), data |-> r.v.v]],
                                     <<Call("read", TRUE)>>)
                      /\ store' = [store EXCEPT ![to_string(id.v)].updated_at = MaxClock]
                      /\ UNCHANGED <<clock, written>>
                 ELSE /\ resp' = Response("get", [id |-> id_str], into_response(KeyNotFound(id.v)),
                                     <<Call("read", TRUE)>>)
                      /\ UNCHANGED <<store, clock, written>>

get_handler(id_str, storeOk) ==
    LET id == PathUuid[id_str]
    IN  /\ UNCHANGED <<store, clock, written>>
        /\ IF ~id.some
           THEN resp' = Response("get", [id |-> id_str], into_response(InvalidUuid(id_str)), <<>>)
           ELSE IF ~storeOk
           THEN resp' = Response("get", [id |-> id_str],
                            into_response(DatabaseError("Failed to query data from Spanner")),
                            <<Call("read", FALSE)>>)
           ELSE LET r == read(store, id.v)
                IN  IF ~r.ok
                    THEN resp' = Response("get", [id |-> id_str],
                                     into_response(DatabaseError("Failed to deserialize JSON data")),
                                     <<Call("read", TRUE)>>)
                    ELSE IF r.v.some
                    THEN resp' = Response("get", [id |-> id_str],
                                     [status |-> 200,
                                      body |-> [id |-> to_string(id.v), data |-> r.v.v]],
                                     <<Call("read", TRUE)>>)
                    ELSE resp' = Response("get", [id |-> id_str], into_response(KeyNotFound(id.v)),
                                     <<Call("read", TRUE)>>)

(***************************************************************************)
(* GET /health                                                             *)
(***************************************************************************)
\* What the store does with the SELECT 1 of health_check.
HealthOutcomes == {"row", "no_transaction", "query_failed", "stream_error", "no_rows"}

\* A check that takes an empty result for a healthy store.
health_check_any_result(outcome) ==
    CASE outcome = "row"            -> [ok |-> TRUE]
      [] outcome = "no_transaction" -> [ok |-> FALSE, cause |-> "Failed to create health check transaction"]
      [] outcome = "query_failed"   -> [ok |-> FALSE, cause |-> "Failed to execute health check query"]
      [] outcome = "stream_error"   -> [ok |-> FALSE, cause |-> "row stream error"]
      [] outcome = "no_rows"        -> [ok |-> TRUE]

\* SpannerClient::health_check: Ok only when the query yields a row.
health_check(outcome) ==
    CASE outcome = "row"            -> [ok |-> TRUE]
      [] outcome = "no_transaction" -> [ok |-> FALSE, cause |-> "Failed to create health check transaction"]
      [] outcome = "query_failed"   -> [ok |-> FALSE, cause |-> "Failed to execute health check query"]
      [] outcome = "stream_error"   -> [ok |-> FALSE, cause |-> "row stream error"]
      [] outcome = "no_rows"        -> [ok |-> FALSE, cause |-> "Health check query returned no results"]

health_handler(outcome) ==
    LET r == health_check(outcome)
    IN  /\ UNCHANGED <<store, clock, written>>
        /\ resp' = Response("health", [outcome |-> outcome],
                        IF r.ok
                        THEN [status |-> 200, body |-> [status |-> "healthy"]]
                        ELSE [status |-> 503,
                              body |-> [status |-> "unhealthy",
                                        error |-> [text |-> "Cannot connect to database: ",
                                                   cause |-> r.cause]]],
                        <<Call("health_check", r.ok)>>)

(***************************************************************************)
(* Startup: main                                                           *)
(*   boot  : where main stands, the configuration it read, the steps it    *)
(*           completed, the admin calls it made and the error it ended on  *)
(*   cloud : whether the instance and the database exist, and the DDL      *)
(*           statements of the database                                    *)
(***************************************************************************)
\* str::parse::<u16>: decimal digits after an optional plus sign, at most 65535.
parse_u16(s) ==
    LET digits == IF s # <<>> /\ Head(s) = "+" THEN Tail(s) ELSE s
    IN  IF digits # <<>> /\ \A i \in 1..Len(digits) : DigitVal(digits[i]) >= 0
        THEN LET n == ParseDigits(digits, 0).v
             IN  IF n <= 65535 THEN Some(n) ELSE None
        ELSE None

\* Config::from_env: the three Spanner names are required, port and host have
\* defaults.
from_env(env) ==
    IF ~env.SPANNER_PROJECT.some
    THEN [ok |-> FALSE, err |-> "SPANNER_PROJECT environment variable is required"]
    ELSE IF ~env.SPANNER_INSTANCE.some
    THEN [ok |-> FALSE, err |-> "SPANNER_INSTANCE environment variable is required"]
    ELSE IF ~env.SPANNER_DATABASE.some
    THEN [ok |-> FALSE, err |-> "SPANNER_DATABASE environment variable is required"]
    ELSE LET port == IF env.SERVICE_PORT.some THEN parse_u16(env.SERVICE_PORT.v)
                     ELSE parse_u16(<<"3","0","0","0">>)
         IN  IF ~port.some
             THEN [ok |-> FALSE, err |-> "SERVICE_PORT must be a valid port number (0-65535)"]
             ELSE [ok |-> TRUE,
                   config |-> [spanner_emulator_host |-> env.SPANNER_EMULATOR_HOST,
                               spanner_project  |-> env.SPANNER_PROJECT.v,
                               spanner_instance |-> env.SPANNER_INSTANCE.v,
                               spanner_database |-> env.SPANNER_DATABASE.v,
                               service_port     |-> port.v,
                               service_host     |-> IF env.SERVICE_HOST.some
                                                    THEN env.SERVICE_HOST.v ELSE "0.0.0.0"]]

\* One call on the admin client and the reply it got.
AdminCall(rpc, arg, reply) == [rpc |-> rpc, arg |-> arg, reply |-> reply]

\* What the admin API does with the calls of one ensure step: the existence
\* check answers or fails with a code other than NotFound; a create fails to
\* start, fails while waited for (the resource may exist afterwards or not),
\* or completes.
Rpcs == [get : {"ok", "error"}, create : {"ok", "start_failed", "wait_failed"}, landed : BOOLEAN]

\* The reply of get_instance or get_database for a resource that exists or
\* does not.
get_reply(exists, rpc) ==
    IF rpc.get = "error" THEN "Error" ELSE IF exists THEN "Ok" ELSE "NotFound"

\* The reply of a create call and of the wait for its operation, and whether
\* the resource exists afterwards: a resource that exists is not created
\* again, the call is refused.
create_reply(exists, rpc) ==
    IF exists THEN [reply |-> "AlreadyExists", exists |-> TRUE]
    ELSE CASE rpc.create = "ok" -> [reply |-> "Done", exists |-> TRUE]
           [] rpc.create = "start_failed" -> [reply |-> "StartFailed", exists |-> FALSE]
           [] rpc.create = "wait_failed" -> [reply |-> "WaitFailed", exists |-> rpc.landed]

\* Replies with which create_instance, create_database or update_database_ddl
\* itself returns Err, before there is an operation to wait for.
NotStarted == {"StartFailed", "AlreadyExists"}

Ensured(cl, calls) == [ok |-> TRUE, cloud |-> cl, calls |-> calls, err |-> ""]

NotEnsured(cl, calls, err) == [ok |-> FALSE, cloud |-> cl, calls |-> calls, err |-> err]

\* The instance config named in the create request.
instance_config(config) ==
    IF config.spanner_emulator_host.some THEN "emulator-config" ELSE "regional-us-central1"

\* An instance step that creates on any failure of the existence check.
ensure_instance_exists_create_on_error(cl, config, rpc) ==
    LET found == get_reply(cl.instance, rpc)
        get == AdminCall("get_instance", config.spanner_instance, found)
    IN  IF found = "Ok" THEN Ensured(cl, <<get>>)
        ELSE LET c == create_reply(cl.instance, rpc)
                 create == AdminCall("create_instance", instance_config(config), c.reply)
                 after == [cl EXCEPT !.instance = c.exists]
             IN  IF c.reply = "Done" THEN Ensured(after, <<get, create>>)
                 ELSE IF c.reply \in NotStarted
                 THEN NotEnsured(after, <<get, create>>, "Failed to start instance creation")
                 ELSE NotEnsured(after, <<get, create>>, "Failed to create instance")

\* get_instance, then create_instance and the wait for it when NotFound.
ensure_instance_exists(cl, config, rpc) ==
    LET found == get_reply(cl.instance, rpc)
        get == AdminCall("get_instance", config.spanner_instance, found)
    IN  IF found = "Ok" THEN Ensured(cl, <<get>>)
        ELSE IF found = "NotFound"
        THEN LET c == create_reply(cl.instance, rpc)
                 create == AdminCall("create_instance", instance_config(config), c.reply)
                 after == [cl EXCEPT !.instance = c.exists]
             IN  IF c.reply = "Done" THEN Ensured(after, <<get, create>>)
                 ELSE IF c.reply \in NotStarted
                 THEN NotEnsured(after, <<get, create>>, "Failed to start instance creation")
                 ELSE NotEnsured(after, <<get, create>>, "Failed to create instance")
        ELSE NotEnsured(cl, <<get>>, "Failed to check instance existence")

\* get_database, then create_database and the wait for it when NotFound.
ensure_database_exists(cl, config, rpc) ==
    LET found == get_reply(cl.database, rpc)
        get == AdminCall("get_database", config.spanner_database, found)
    IN  IF found = "Ok" THEN Ensured(cl, <<get>>)
        ELSE IF found = "NotFound"
        THEN LET c == create_reply(cl.database, rpc)
                 create == AdminCall("create_database", config.spanner_database, c.reply)
                 after == [cl EXCEPT !.database = c.exists]
             IN  IF c.reply = "Done" THEN Ensured(after, <<get, create>>)
                 ELSE IF c.reply \in NotStarted
                 THEN NotEnsured(after, <<get, create>>, "Failed to start database creation")
                 ELSE NotEnsured(after, <<get, create>>, "Failed to create database")
        ELSE NotEnsured(cl, <<get>>, "Failed to check database existence")

\* The character U+0060, which a string of this language cannot hold.
Backquote == "U+0060"

\* str::contains
Contains(s, pat) ==
    \E i \in 0..(Len(s) - Len(pat)) : SubSeq(s, i + 1, i + Len(pat)) = pat

\* The opening of the statement ensure_table_exists submits.
create_table_ddl == <<"C","R","E","A","T","E"," ","T","A","B","L","E"," ","k","v","_","s","t","o","r","e"," ","(">>

\* A test that knows the quoted spelling only.
table_exists_quoted_only(statements) ==
    \E stmt \in statements : Contains(stmt, <<"C","R","E","A","T","E"," ","T","A","B","L","E"," ",Backquote,"k","v","_","s","t","o","r","e",Backquote>>)

\* The test ensure_table_exists applies to the statements of the database.
table_exists(statements) ==
    \E stmt \in statements :
        \/ Contains(stmt, <<"C","R","E","A","T","E"," ","T","A","B","L","E"," ","k","v","_","s","t","o","r","e">>)
        \/ Contains(stmt, <<"C","R","E","A","T","E"," ","T","A","B","L","E"," ",Backquote,"k","v","_","s","t","o","r","e",Backquote>>)

\* The name of the table a CREATE TABLE statement creates: the text between
\* the keyword and the next space, without quoting.
RECURSIVE UpToSpace(_)
UpToSpace(s) == IF s = <<>> \/ Head(s) = " " THEN <<>> ELSE <<Head(s)>> \o UpToSpace(Tail(s))

CreateTable == <<"C","R","E","A","T","E"," ","T","A","B","L","E"," ">>

created_table(stmt) ==
    IF StartsWith(stmt, CreateTable)
    THEN Some(SelectSeq(UpToSpace(SubSeq(stmt, Len(CreateTable) + 1, Len(stmt))),
                        LAMBDA c : c # Backquote))
    ELSE None

\* The tables of a database with the given statements.
tables(statements) == {created_table(stmt).v : stmt \in {x \in statements : created_table(x).some}}

kv_store == <<"k","v","_","s","t","o","r","e">>

\* The reply of get_database_ddl.
ddl_reply(rpc) == IF rpc.get = "error" THEN "Error" ELSE "Ok"

\* The reply of update_database_ddl with create_table_ddl and of the wait for
\* its operation, and the statements afterwards: a table that exists is not
\* created again.
update_ddl_reply(statements, rpc) ==
    IF kv_store \in tables(statements)
    THEN [reply |-> "AlreadyExists", ddl |-> statements]
    ELSE CASE rpc.create = "ok" -> [reply |-> "Done", ddl |-> statements \cup {create_table_ddl}]
           [] rpc.create = "start_failed" -> [reply |-> "StartFailed", ddl |-> statements]
           [] rpc.create = "wait_failed" ->
                 [reply |-> "WaitFailed",
                  ddl |-> IF rpc.landed THEN statements \cup {create_table_ddl} ELSE statements]

\* A table step that reports success whatever became of the DDL update.
ensure_table_exists_unchecked(cl, config, rpc) ==
    LET fetched == ddl_reply(rpc)
        get == AdminCall("get_database_ddl", config.spanner_database, fetched)
    IN  IF fetched # "Ok" THEN NotEnsured(cl, <<get>>, "Failed to get database DDL")
        ELSE IF table_exists(cl.ddl) THEN Ensured(cl, <<get>>)
        ELSE LET u == update_ddl_reply(cl.ddl, rpc)
                 update == AdminCall("update_database_ddl", create_table_ddl, u.reply)
                 after == [cl EXCEPT !.ddl = u.ddl]
             IN  Ensured(after, <<get, update>>)

\* get_database_ddl, then update_database_ddl and the wait for it when no
\* statement passes the test.
ensure_table_exists(cl, config, rpc) ==
    LET fetched == ddl_reply(rpc)
        get == AdminCall("get_database_ddl", config.spanner_database, fetched)
    IN  IF fetched # "Ok" THEN NotEnsured(cl, <<get>>, "Failed to get database DDL")
        ELSE IF table_exists(cl.ddl) THEN Ensured(cl, <<get>>)
        ELSE LET u == update_ddl_reply(cl.ddl, rpc)
                 update == AdminCall("update_database_ddl", create_table_ddl, u.reply)
                 after == [cl EXCEPT !.ddl = u.ddl]
             IN  IF u.reply = "Done" THEN Ensured(after, <<get, update>>)
                 ELSE IF u.reply \in NotStarted
                 THEN NotEnsured(after, <<get, update>>, "Failed to start table creation")
                 ELSE NotEnsured(after, <<get, update>>, "Failed to create table")

\* main returns the error: the process ends.
Exited(calls, err) ==
    [boot EXCEPT !.pc = "exited", !.calls = @ \o calls, !.err = Some(err)]

\* The step is done and main goes on to the next.
Proceed(step, next, calls) ==
    [boot EXCEPT !.pc = next, !.steps = Append(@, step), !.calls = @ \o calls]

\* No request is served by a step of main before axum::serve.
NotServing == UNCHANGED <<store, clock, written, resp, list, query, callers>>

\* The environments main is started in.
FullEnv ==
    [SPANNER_EMULATOR_HOST |-> Some("localhost:9010"), SPANNER_PROJECT |-> Some("p"),
     SPANNER_INSTANCE |-> Some("i"), SPANNER_DATABASE |-> Some("d"),
     SERVICE_PORT |-> None, SERVICE_HOST |-> None]

EnvInputs ==
    { FullEnv,
      [FullEnv EXCEPT !.SPANNER_EMULATOR_HOST = None, !.SERVICE_PORT = Some(<<"8","0","8","0">>),
                      !.SERVICE_HOST = Some("127.0.0.1")],
      [FullEnv EXCEPT !.SERVICE_PORT = Some(<<"6","5","5","3","6">>)],
      [FullEnv EXCEPT !.SERVICE_PORT = Some(<<"h","t","t","p">>)],
      [FullEnv EXCEPT !.SPANNER_PROJECT = None],
      [FullEnv EXCEPT !.SPANNER_INSTANCE = None],
      [FullEnv EXCEPT !.SPANNER_DATABASE = None] }

\* Config::from_env()?
LoadConfig ==
    /\ boot.pc = "from_env"
    /\ \E env \in EnvInputs :
          LET r == from_env(env)
          IN  boot' = IF r.ok
                      THEN [Proceed("from_env", "admin_client", <<>>) EXCEPT !.config = Some(r.config)]
                      ELSE Exited(<<>>, r.err)
    /\ UNCHANGED cloud
    /\ NotServing

\* auto_provision: AdminClient::new
AdminClientNew ==
    /\ boot.pc = "admin_client"
    /\ \E ok \in BOOLEAN :
          boot' = IF ok THEN Proceed("admin_client", "ensure_instance", <<>>)
                  ELSE Exited(<<>>, "Failed to create Spanner admin client")
    /\ UNCHANGED cloud
    /\ NotServing

EnsureInstance ==
    /\ boot.pc = "ensure_instance"
    /\ \E rpc \in Rpcs :
          LET r == ensure_instance_exists(cloud, boot.config.v, rpc)
          IN  /\ cloud' = r.cloud
              /\ boot' = IF r.ok THEN Proceed("ensure_instance", "ensure_database", r.calls)
                         ELSE Exited(r.calls, r.err)
    /\ NotServing

EnsureDatabase ==
    /\ boot.pc = "ensure_database"
    /\ \E rpc \in Rpcs :
          LET r == ensure_database_exists(cloud, boot.config.v, rpc)
          IN  /\ cloud' = r.cloud
              /\ boot' = IF r.ok THEN Proceed("ensure_database", "ensure_table", r.calls)
                         ELSE Exited(r.calls, r.err)
    /\ NotServing

EnsureTable ==
    /\ boot.pc = "ensure_table"
    /\ \E rpc \in Rpcs :
          LET r == ensure_table_exists(cloud, boot.config.v, rpc)
          IN  /\ cloud' = r.cloud
              /\ boot' = IF r.ok THEN Proceed("ensure_table", "client", r.calls)
                         ELSE Exited(r.calls, r.err)
    /\ NotServing

\* from_config: Client::new
ClientNew ==
    /\ boot.pc = "client"
    /\ \E ok \in BOOLEAN :
          boot' = IF ok THEN Proceed("client", "bind", <<>>)
                  ELSE Exited(<<>>, "Failed to create Spanner client")
    /\ UNCHANGED cloud
    /\ NotServing

\* TcpListener::bind, then axum::serve
Bind ==
    /\ boot.pc = "bind"
    /\ \E ok \in BOOLEAN :
          boot' = IF ok THEN Proceed("bind", "serving", <<>>)
                  ELSE Exited(<<>>, "bind")
    /\ UNCHANGED cloud
    /\ NotServing

\* Whether the store may answer a statement on kv_store: it fails every one
\* while the table does not exist, and may fail any.
StoreAnswers == IF kv_store \in tables(cloud.ddl) THEN BOOLEAN ELSE {FALSE}

\* A request is served by a process that got as far as axum::serve.
Serve == boot.pc = "serving" /\ UNCHANGED <<boot, cloud, callers>>

(***************************************************************************)
(* SpannerClient::from_config called by several tasks of one program, with *)
(* one configuration: a step is one call on the admin client               *)
(*   callers : per task, where its call stands, the admin calls it made    *)
(*             and whether it began after another call had returned Ok     *)
(***************************************************************************)
Callers == {1, 2}

NotCalled == [pc |-> "idle", calls |-> <<>>, after_ok |-> FALSE]

\* The call of task p moves on to pc, having made the admin call c.
Advance(p, pc, c) ==
    callers' = [callers EXCEPT ![p] = [@ EXCEPT !.pc = pc, !.calls = Append(@, c)]]

OnlyProvisioning == UNCHANGED <<store, clock, written, resp, list, query, boot>>

\* from_config begins: auto_provision creates its admin client.
FromConfig(p) ==
    /\ callers[p].pc = "idle"
    /\ callers' = [callers EXCEPT ![p] =
                      [@ EXCEPT !.pc = "get_instance",
                                !.after_ok = \E q \in Callers : callers[q].pc = "ok"]]
    /\ UNCHANGED cloud
    /\ OnlyProvisioning

\* ensure_instance_exists: the existence check.
GetInstance(p, config, rpc) ==
    /\ callers[p].pc = "get_instance"
    /\ LET found == get_reply(cloud.instance, rpc)
       IN  Advance(p, IF found = "Ok" THEN "get_database"
                      ELSE IF found = "NotFound" THEN "create_instance" ELSE "err",
                   AdminCall("get_instance", config.spanner_instance, found))
    /\ UNCHANGED cloud
    /\ OnlyProvisioning

\* ensure_instance_exists: create_instance and the wait for its operation.
CreateInstance(p, config, rpc) ==
    /\ callers[p].pc = "create_instance"
    /\ LET c == create_reply(cloud.instance, rpc)
       IN  /\ cloud' = [cloud EXCEPT !.instance = c.exists]
           /\ Advance(p, IF c.reply = "Done" THEN "get_database" ELSE "err",
                      AdminCall("create_instance", instance_config(config), c.reply))
    /\ OnlyProvisioning

\* ensure_database_exists: the existence check.
GetDatabase(p, config, rpc) ==
    /\ callers[p].pc = "get_database"
    /\ LET found == get_reply(cloud.database, rpc)
       IN  Advance(p, IF found = "Ok" THEN "get_database_ddl"
                      ELSE IF found = "NotFound" THEN "create_database" ELSE "err",
                   AdminCall("get_database", config.spanner_database, found))
    /\ UNCHANGED cloud
    /\ OnlyProvisioning

\* ensure_database_exists: create_database and the wait for its operation.
CreateDatabase(p, config, rpc) ==
    /\ callers[p].pc = "create_database"
    /\ LET c == create_reply(cloud.database, rpc)
       IN  /\ cloud' = [cloud EXCEPT !.database = c.exists]
           /\ Advance(p, IF c.reply = "Done" THEN "get_database_ddl" ELSE "err",
                      AdminCall("create_database", config.spanner_database, c.reply))
    /\ OnlyProvisioning

\* ensure_table_exists: get_database_ddl and the test of its statements.
GetDatabaseDdl(p, config, rpc) ==
    /\ callers[p].pc = "get_database_ddl"
    /\ LET fetched == ddl_reply(rpc)
       IN  Advance(p, IF fetched # "Ok" THEN "err"
                      ELSE IF table_exists(cloud.ddl) THEN "client" ELSE "update_database_ddl",
                   AdminCall("get_database_ddl", config.spanner_database, fetched))
    /\ UNCHANGED cloud
    /\ OnlyProvisioning

\* ensure_table_exists: update_database_ddl and the wait for its operation.
UpdateDatabaseDdl(p, config, rpc) ==
    /\ callers[p].pc = "update_database_ddl"
    /\ LET u == update_ddl_reply(cloud.ddl, rpc)
       IN  /\ cloud' = [cloud EXCEPT !.ddl = u.ddl]
           /\ Advance(p, IF u.reply = "Done" THEN "client" ELSE "err",
                      AdminCall("update_database_ddl", create_table_ddl, u.reply))
    /\ OnlyProvisioning

\* from_config: Client::new, and Ok(Self).
Connect(p) ==
    /\ callers[p].pc = "client"
    /\ callers' = [callers EXCEPT ![p] = [@ EXCEPT !.pc = "ok"]]
    /\ UNCHANGED cloud
    /\ OnlyProvisioning

(***************************************************************************)
(* Requests                                                                *)
(***************************************************************************)
\* Query strings of GET /kv.
PrefixInputs == {None, Some(<<"a">>), Some(<<"_">>)}

SortInputs == {None, Some("key_asc"), Some("key_desc"), Some("created_asc"), Some("created_desc"),
               Some("updated_asc"), Some("updated_desc"),
               Some("bogus"), Some("KEY_ASC"), Some(" key_asc")}

LimitInputs == {None, Some(0), Some(1), Some(2)}

OffsetInputs == {None, Some(1), Some(2)}

ListQueries == [prefix : PrefixInputs, sort : SortInputs, limit : LimitInputs, offset : OffsetInputs]

\* One body for the entries the list requests are run against.
ListBody == <<"{","\"","a","\"",":","1","}">>

\* The content type of a request that declares JSON.
JsonType == Some("application/json")

Put == \E id_str \in PathInputs, body \in BodyInputs, storeOk \in StoreAnswers :
          /\ put_handler(id_str, JsonType, body, storeOk)
          /\ UNCHANGED <<list, query>>
          /\ Serve

Get == \E id_str \in PathInputs, storeOk \in StoreAnswers :
          /\ get_handler(id_str, storeOk)
          /\ UNCHANGED <<list, query>>
          /\ Serve

\* A client that sends one request at a time: writes and list requests, no
\* write while a list request is between its two reads.
SeqPut == /\ list = Idle
          /\ \E id_str \in ListIds, storeOk \in StoreAnswers : put_handler(id_str, JsonType, ListBody, storeOk)
          /\ UNCHANGED <<list, query>>
          /\ Serve

ListCount == Serve /\ \E storeOk \in StoreAnswers : list_count(storeOk)

ListData == Serve /\ \E storeOk \in StoreAnswers : list_data(storeOk)

\* The service under concurrent clients: any request may be served while a
\* list request is between its two reads.
ContentTypes == {JsonType, Some("text/plain"), None}

SvcPaths == {IdA, IdB, <<"n","o","t","-","a","-","u","u","i","d">>}

SvcBodies == {ListBody, <<"{","\"","a","\"",":">>}

SvcQueries ==
    { [prefix |-> None, sort |-> None, limit |-> None, offset |-> None],
      [prefix |-> Some(<<"a">>), sort |-> Some("created_desc"), limit |-> Some(2), offset |-> None],
      [prefix |-> None, sort |-> Some("bogus"), limit |-> None, offset |-> None],
      [prefix |-> None, sort |-> None, limit |-> Some(-1), offset |-> None] }

SvcPut == \E id_str \in SvcPaths, content_type \in ContentTypes, body \in SvcBodies,
             storeOk \in StoreAnswers :
             /\ put_handler(id_str, content_type, body, storeOk)
             /\ UNCHANGED <<list, query>>
             /\ Serve

SvcGet == \E id_str \in SvcPaths, storeOk \in StoreAnswers :
             /\ get_handler(id_str, storeOk)
             /\ UNCHANGED <<list, query>>
             /\ Serve

Health == \E outcome \in HealthOutcomes :
             /\ health_handler(outcome)
             /\ UNCHANGED <<list, query>>
             /\ Serve

\* No entry stored, no request served, from_config called by main alone.
Fresh ==
    /\ store = <<>>
    /\ clock = 0
    /\ written = <<>>
    /\ resp = NoResponse
    /\ list = Idle
    /\ callers = [p \in Callers |-> NotCalled]

\* The order in which main completes its steps.
StartupOrder ==
    <<"from_env", "admin_client", "ensure_instance", "ensure_database", "ensure_table",
      "client", "bind">>

\* A service started with FullEnv against resources that all existed.
Empty ==
    /\ Fresh
    /\ cloud = [instance |-> TRUE, database |-> TRUE, ddl |-> {create_table_ddl}]
    /\ boot = [pc |-> "serving", config |-> Some(from_env(FullEnv).config),
               steps |-> StartupOrder,
               calls |-> <<AdminCall("get_instance", "i", "Ok"), AdminCall("get_database", "d", "Ok"),
                           AdminCall("get_database_ddl", "d", "Ok")>>,
               err |-> None]

Init == Empty /\ query = [prefix |-> None, sort |-> None, limit |-> None, offset |-> None]

Next == Put \/ Get

Spec == Init /\ [][Next]_vars

NextSeq == SeqPut \/ ListCount \/ ListData

InitSeq == Empty /\ query \in ListQueries

SpecSeq == InitSeq /\ [][NextSeq]_vars

NextSvc == SvcPut \/ SvcGet \/ Health \/ ListCount \/ ListData

InitSvc == Empty /\ query \in SvcQueries

SpecSvc == InitSvc /\ [][NextSvc]_vars

\* The statements a database may hold when main starts: none, those of
\* kv_store, or those of other tables.
DdlInputs ==
    { {}, {create_table_ddl},
      {<<"C","R","E","A","T","E"," ","T","A","B","L","E"," ","u","s","e","r","s"," ","(">>},
      {<<"C","R","E","A","T","E"," ","T","A","B","L","E"," ","k","v","_","s","t","o","r","e","_","v","2"," ","(">>} }

\* The process from its start: a database lives in an instance, statements in
\* a database.
CloudStates ==
    {cl \in [instance : BOOLEAN, database : BOOLEAN, ddl : DdlInputs] :
        (cl.ddl # {} => cl.database) /\ (cl.database => cl.instance)}

InitBoot ==
    /\ Fresh
    /\ query = [prefix |-> None, sort |-> None, limit |-> None, offset |-> None]
    /\ cloud \in CloudStates
    /\ boot = [pc |-> "from_env", config |-> None, steps |-> <<>>, calls |-> <<>>, err |-> None]

NextBoot ==
    \/ LoadConfig \/ AdminClientNew \/ EnsureInstance \/ EnsureDatabase \/ EnsureTable
    \/ ClientNew \/ Bind
    \/ SvcPut \/ SvcGet \/ Health

SpecBoot == InitBoot /\ [][NextBoot]_vars

\* The configuration the tasks share, and an admin API that answers every call.
SharedConfig == from_env(FullEnv).config

Answering == [get |-> "ok", create |-> "ok", landed |-> TRUE]

\* A task whose from_config returned Ok writes through its client.
ClientUpsert(p) ==
    /\ callers[p].pc = "ok"
    /\ kv_store \in tables(cloud.ddl)
    /\ \E id_str \in {IdA, IdB} :
          LET id == PathUuid[id_str].v
              key == to_string(id)
          IN  \E ts \in CommitTimes(store, clock, key) :
                 /\ store' = upsert(store, id, BodyJson[ListBody].v, ts)
                 /\ clock' = ts
                 /\ written' = insert_or_update(written, key, [v |-> BodyJson[ListBody].v, ts |-> ts])
    /\ UNCHANGED <<resp, list, query, boot, cloud, callers>>

\* Tasks that call from_config against the same resources, one admin call at
\* a time, in any interleaving.
InitProv ==
    /\ Fresh
    /\ query = [prefix |-> None, sort |-> None, limit |-> None, offset |-> None]
    /\ cloud \in CloudStates
    /\ boot = [pc |-> "from_env", config |-> None, steps |-> <<>>, calls |-> <<>>, err |-> None]

NextProv ==
    \E p \in Callers :
        \/ FromConfig(p)
        \/ GetInstance(p, SharedConfig, Answering)
        \/ CreateInstance(p, SharedConfig, Answering)
        \/ GetDatabase(p, SharedConfig, Answering)
        \/ CreateDatabase(p, SharedConfig, Answering)
        \/ GetDatabaseDdl(p, SharedConfig, Answering)
        \/ UpdateDatabaseDdl(p, SharedConfig, Answering)
        \/ Connect(p)
        \/ ClientUpsert(p)

SpecProv == InitProv /\ [][NextProv]_vars

(***************************************************************************)
(* Properties of PUT /kv/{id} and GET /kv/{id}, checked under Spec         *)
(***************************************************************************)
\* The path segments that parse, and the key each addresses.
ValidPaths == {p \in PathInputs : PathUuid[p].some}

KeyOf(p) == to_string(PathUuid[p].v)

\* Canonical text form: 36 characters, 8-4-4-4-12 hexadecimal digits separated
\* by hyphens (read generously: digits of either case).
IsCanonical(p) ==
    /\ Len(p) = 36
    /\ \A i \in 1..36 : IF i \in HyphenPos THEN p[i] = "-" ELSE p[i] \in HexDigits

InvalidUuidBody(p) ==
    [error |-> [text |-> "Invalid UUID format: expected format like '550e8400-e29b-41d4-a716-446655440000', got ",
                arg |-> p]]

\* C1: last write wins and round-trips.  For every path segment that parses to
\* a key with an acknowledged upsert, read returns Some(w), w the value of the
\* most recent acknowledged upsert of that key, and a GET that answers 200
\* carries {id, data: w}.
C1_RoundTrip ==
    /\ \A p \in ValidPaths :
          KeyOf(p) \in DOMAIN written =>
             read(store, PathUuid[p].v) = [ok |-> TRUE, v |-> Some(written[KeyOf(p)].v)]
    /\ (resp.op = "get" /\ resp.status = 200) =>
          /\ KeyOf(resp.req.id) \in DOMAIN written
          /\ resp.body = [id |-> KeyOf(resp.req.id), data |-> written[KeyOf(resp.req.id)].v]
    /\ (resp.op = "put" /\ resp.status = 200) =>
          /\ written[KeyOf(resp.req.id)].v = BodyJson[resp.req.body].v
          /\ resp.body = [id |-> KeyOf(resp.req.id)]

\* A GET answered 200 with a value that contains an escaped string, after the
\* key was written twice.
C1_Witness ==
    /\ resp.op = "get" /\ resp.status = 200
    /\ resp.body.data.t = "arr"
    /\ DOMAIN store = {resp.body.id}
    /\ written[resp.body.id].ts = 2

\* C2: not-found is a value.  read of a key never upserted is Ok(None); a GET
\* of such a key answers 404 "Key not found: <id>" whenever the store answers
\* the read, and otherwise 500; never 200.
C2_NotFound ==
    /\ \A p \in ValidPaths :
          KeyOf(p) \notin DOMAIN written => read(store, PathUuid[p].v) = [ok |-> TRUE, v |-> None]
    /\ (resp.op = "get" /\ resp.req.id \in ValidPaths /\ KeyOf(resp.req.id) \notin DOMAIN written) =>
          IF resp.calls = <<Call("read", TRUE)>>
          THEN /\ resp.status = 404
               /\ resp.body = [error |-> [text |-> "Key not found: ", arg |-> KeyOf(resp.req.id)]]
          ELSE /\ resp.calls = <<Call("read", FALSE)>>
               /\ resp.status = 500

\* A 404 for one key while another key is stored.
C2_Witness ==
    /\ resp.op = "get" /\ resp.status = 404
    /\ store # <<>>
    /\ resp.body.error.arg \notin DOMAIN store

\* C3 as stated: every path segment that is not in canonical form is rejected
\* by PUT and GET with 400 "Invalid UUID format ... <input>" and no store call.
C3_CanonicalOnly ==
    (resp.op \in {"put", "get"} /\ ~IsCanonical(resp.req.id)) =>
        /\ resp.status = 400
        /\ resp.body = InvalidUuidBody(resp.req.id)
        /\ resp.calls = <<>>

\* C3 amended: every path segment that Uuid::parse_str does not accept is
\* rejected by GET, and by PUT when the body is JSON, with 400 "Invalid UUID
\* format ... <input>" and no store call; every response that made no store
\* call is a 400.
C3_InvalidRejected ==
    /\ (resp.op = "get" /\ resp.req.id \notin ValidPaths) =>
          /\ resp.status = 400
          /\ resp.body = InvalidUuidBody(resp.req.id)
          /\ resp.calls = <<>>
    /\ (/\ resp.op = "put" /\ resp.req.id \notin ValidPaths
        /\ json_content_type(resp.req.content_type) /\ BodyJson[resp.req.body].some) =>
          /\ resp.status = 400
          /\ resp.body = InvalidUuidBody(resp.req.id)
          /\ resp.calls = <<>>
    /\ (resp.op = "get" /\ resp.calls = <<>>) => resp.status = 400
    /\ (resp.op = "put" /\ resp.calls = <<>> /\ json_content_type(resp.req.content_type)) =>
          resp.status = 400

\* A PUT with a JSON body rejected for its path while the store holds entries.
C3_Witness ==
    /\ resp.op = "put" /\ resp.status = 400
    /\ BodyJson[resp.req.body].some
    /\ Len(resp.req.id) = 36
    /\ store # <<>>

\* C4: idempotent upsert.  Every acknowledged upsert leaves read(id) equal to
\* its value and one entry for its key: the entry count is unchanged when the
\* key existed and grows by one otherwise; updated_at of a stored key never
\* decreases from one state to the next.
C4_Idempotent ==
    [][ /\ \A k \in DOMAIN store :
              k \in DOMAIN store' /\ store'[k].updated_at >= store[k].updated_at
        /\ (store' # store) =>
              LET key == resp'.body.id
              IN  /\ resp'.op = "put" /\ resp'.status = 200
                  /\ read(store', PathUuid[resp'.req.id].v) =
                        [ok |-> TRUE, v |-> Some(BodyJson[resp'.req.body].v)]
                  /\ ExecCount(store', count_stmt(None)) =
                        ExecCount(store, count_stmt(None)) + (IF key \in DOMAIN store THEN 0 ELSE 1)
      ]_vars

\* The second of two acknowledged upserts of the only key.
C4_Witness ==
    /\ resp.op = "put" /\ resp.status = 200
    /\ Cardinality(DOMAIN store) = 1
    /\ store[resp.body.id].updated_at = 2

\* C5: every entry has created_at = updated_at = the commit timestamp of the
\* latest acknowledged upsert of its key.
C5_BothTimestamps ==
    /\ DOMAIN store = DOMAIN written
    /\ \A k \in DOMAIN store :
          /\ store[k].created_at = written[k].ts
          /\ store[k].updated_at = written[k].ts

\* The entry of IdA after it was overwritten.
C5_Witness == DOMAIN store = {IdA} /\ store[IdA].created_at = 2

\* C6 as stated: created_at is set at the first write of a key and no later
\* upsert changes it.
C6_CreatedSetOnce ==
    [][\A k \in DOMAIN store : store'[k].created_at = store[k].created_at]_vars

\* C6 amended: created_at and updated_at are both set on every write; an
\* upsert of a new key and an upsert of an existing key alike leave both equal
\* to that commit's timestamp, which for an existing key is later than the
\* created_at it replaces.
C6_CreatedEveryWrite ==
    [][(store' # store) =>
          LET key == resp'.body.id
          IN  /\ store'[key].created_at = clock'
              /\ store'[key].updated_at = clock'
              /\ key \in DOMAIN store => store'[key].created_at > store[key].created_at
      ]_vars

\* The entry of IdB after it was overwritten.
C6_Witness == DOMAIN store = {IdB} /\ written[IdB].ts = 2 /\ resp.op = "put"

\* C7: every stored entry has created_at <= updated_at, and a key's first
\* write leaves the two equal.
C7_CreatedBeforeUpdated ==
    /\ [](\A k \in DOMAIN store : store[k].created_at <= store[k].updated_at)
    /\ [][\A k \in (DOMAIN store') \ (DOMAIN store) :
             store'[k].created_at = store'[k].updated_at]_vars

\* Two entries, one of them overwritten after the other was first written.
C7_Witness ==
    /\ DOMAIN store = {IdA, IdB}
    /\ store[IdA].updated_at = 1
    /\ store[IdB].updated_at = 2

(***************************************************************************)
(* Properties of GET /kv against a store no write changes between the two  *)
(* reads, checked under SpecSeq                                            *)
(***************************************************************************)
\* A list response that carries entries.
Listed == resp.op = "list" /\ resp.status = 200

StrLeq(a, b) == a = b \/ StrLess(a, b)

\* C8 as stated: the prefix filter is a literal starts-with predicate.  Every
\* entry returned for prefix p has a key that starts with the characters of p,
\* and total_count is the number of stored keys that start with them (all
\* stored keys when no prefix is given).
C8_LiteralPrefix ==
    Listed =>
        /\ query.prefix.some =>
              \A i \in 1..Len(resp.body.data) : StartsWith(resp.body.data[i].key, query.prefix.v)
        /\ resp.body.total_count =
              Cardinality({k \in DOMAIN store : query.prefix.some => StartsWith(k, query.prefix.v)})

\* C9: sort completeness.  For each of the six sort tokens every pair of
\* consecutive entries of a list response satisfies that order's comparator on
\* its field.
C9_Sorted ==
    (Listed /\ query.sort.some) =>
        \A i \in 1..(Len(resp.body.data) - 1) :
            LET a == resp.body.data[i]
                b == resp.body.data[i + 1]
            IN  CASE query.sort.v = "key_asc"      -> StrLeq(a.key, b.key)
                  [] query.sort.v = "key_desc"     -> StrLeq(b.key, a.key)
                  [] query.sort.v = "created_asc"  -> a.created_at <= b.created_at
                  [] query.sort.v = "created_desc" -> a.created_at >= b.created_at
                  [] query.sort.v = "updated_asc"  -> a.updated_at <= b.updated_at
                  [] query.sort.v = "updated_desc" -> a.updated_at >= b.updated_at

\* Entries listed newest first whose creation instants differ.
C9_Witness ==
    /\ Listed
    /\ query.sort = Some("created_desc")
    /\ Len(resp.body.data) >= 2
    /\ resp.body.data[1].created_at > resp.body.data[2].created_at

\* The entries list_all can return from store st.
ListEntries(st, prefix, sort, limit, offset) ==
    {KvEntries(rows).v : rows \in ExecData(st, data_stmt(prefix, sort, limit, offset))}

\* Positions offset .. offset+limit-1 (counted from 0) of a full listing, or
\* everything from position offset when no limit is given.
Page(full, limit, offset) ==
    SubSeq(full, offset + 1, IF limit.some THEN Min(offset + limit.v, Len(full)) ELSE Len(full))

\* C10 as stated: against a fixed store, for every sort order, prefix, limit
\* and offset, the entries list_all returns are exactly the window of the full
\* listing (same prefix and sort, no limit, offset 0), in the same order.
C10_PageIsWindow ==
    \A prefix \in PrefixInputs, sort \in SortOrders, limit \in LimitInputs, offset \in 0..2 :
        \A full \in ListEntries(store, prefix, sort, None, 0) :
            \A page \in ListEntries(store, prefix, sort, limit, offset) :
                page = Page(full, limit, offset)

\* C11: total_count is independent of the pagination window.  Whatever limit,
\* offset and sort a list request carries, its total_count is the number of
\* stored keys its prefix pattern selects, a function of the store and the
\* prefix alone.
C11_TotalCountOfPrefix ==
    Listed => resp.body.total_count = ExecCount(store, count_stmt(query.prefix))

\* A page of one entry, taken after skipping one, of a listing of three.
C11_Witness ==
    /\ Listed
    /\ query.limit = Some(1) /\ query.offset = Some(1)
    /\ Len(resp.body.data) = 1
    /\ resp.body.total_count = 3

\* C12: whenever a limit L is given, L = 0 included, a list response carries at
\* most L entries.
C12_AtMostLimit ==
    (Listed /\ query.limit.some) => Len(resp.body.data) <= query.limit.v

\* A request with limit 0 against a store that holds entries.
C12_Witness ==
    /\ Listed
    /\ query.limit = Some(0)
    /\ query.prefix = None
    /\ store # <<>>
    /\ resp.body.data = <<>>

\* C13: with no limit, and no write between the two reads, a list response
\* carries max(0, total_count - offset) entries.
C13_RestAfterOffset ==
    (Listed /\ ~query.limit.some) =>
        LET offset == IF query.offset.some THEN query.offset.v ELSE 0
            rest == resp.body.total_count - offset
        IN  Len(resp.body.data) = IF rest > 0 THEN rest ELSE 0

\* An offset beyond the last entry.
C13_Witness ==
    /\ Listed
    /\ ~query.limit.some
    /\ query.offset = Some(2)
    /\ resp.body.total_count = 1
    /\ resp.body.data = <<>>

\* The six legal sort tokens and their variants.
SortTokens ==
    [key_asc |-> "KeyAsc", key_desc |-> "KeyDesc", created_asc |-> "CreatedAsc",
     created_desc |-> "CreatedDesc", updated_asc |-> "UpdatedAsc", updated_desc |-> "UpdatedDesc"]

InvalidSortBody(v) ==
    [error |-> [text |-> "Invalid query parameter: sort must be one of: key_asc, key_desc, created_asc, created_desc, updated_asc, updated_desc, got ",
                value |-> v]]

\* C15: sort parameter parsing.  An absent sort lists by KeyAsc and each of the
\* six tokens by its own variant; any other string makes GET /kv answer 400
\* with the six legal values and the input, and list_all is not called.
C15_SortParsing ==
    IF query.sort.some /\ query.sort.v \notin DOMAIN SortTokens
    THEN /\ list = Idle
         /\ resp.op = "list" =>
               /\ resp.status = 400
               /\ resp.body = InvalidSortBody(query.sort.v)
               /\ resp.calls = <<>>
    ELSE /\ list # Idle =>
               list.sort = IF query.sort.some THEN SortTokens[query.sort.v] ELSE "KeyAsc"
         /\ resp.op = "list" => (resp.status # 400 /\ resp.calls # <<>>)

\* A token in upper case refused while the store holds entries.
C15_Witness ==
    /\ resp.op = "list" /\ resp.status = 400
    /\ query.sort = Some("KEY_ASC")
    /\ store # <<>>

(***************************************************************************)
(* Properties of the service under concurrent requests, checked under      *)
(* SpecSvc                                                                 *)
(***************************************************************************)
\* The stored keys the request's prefix pattern selects now.
Matching == ExecCount(store, count_stmt(query.prefix))

KvResp == resp.op \in {"put", "get", "list"}

\* The store calls a request may make: each at most once, the data read of a
\* list request only after its count read succeeded.
CallsOnce ==
    CASE resp.op = "put"    -> resp.calls \in {<<>>} \cup {<<Call("upsert", ok)>> : ok \in BOOLEAN}
      [] resp.op = "get"    -> resp.calls \in {<<>>} \cup {<<Call("read", ok)>> : ok \in BOOLEAN}
      [] resp.op = "list"   -> resp.calls \in {<<>>, <<Call("count", FALSE)>>} \cup
                                              {<<Call("count", TRUE), Call("data", ok)>> : ok \in BOOLEAN}
      [] resp.op = "health" -> resp.calls \in {<<Call("health_check", ok)>> : ok \in BOOLEAN}
      [] OTHER              -> resp.calls = <<>>

\* The status each kind of failure is answered with.
ErrorStatus ==
    /\ (KvResp /\ \E i \in 1..Len(resp.calls) : ~resp.calls[i].ok) => resp.status = 500
    /\ (KvResp /\ resp.status >= 400 /\ "error" \in DOMAIN resp.body) =>
          LET text == resp.body.error.text
          IN  CASE text = "Key not found: " -> resp.status = 404
                [] text = "Database error: " -> resp.status = 500
                [] OTHER -> resp.status = 400 /\ resp.calls = <<>>
    /\ (KvResp /\ resp.body = JsonRejection.body) => resp.status = 400
    /\ (KvResp /\ resp.body = QueryRejection.body) => resp.status = 400

RejectionBodies == {JsonRejection.body, QueryRejection.body, MissingJsonContentType.body}

C18_Health ==
    /\ [](resp.op = "health" =>
             IF resp.req.outcome = "row"
             THEN resp.status = 200 /\ resp.body = [status |-> "healthy"]
             ELSE /\ resp.status = 503
                  /\ DOMAIN resp.body = {"status", "error"}
                  /\ resp.body.status = "unhealthy"
                  /\ resp.body.error.text = "Cannot connect to database: ")
    /\ [][resp'.op = "health" => UNCHANGED <<store, clock, written>>]_vars

\* An empty result answered 503 while the store holds entries.
C18_Witness ==
    /\ resp.op = "health" /\ resp.status = 503
    /\ resp.req.outcome = "no_rows"
    /\ store # <<>>

(***************************************************************************)
(* No delete, checked under SpecSvc                                        *)
(***************************************************************************)
\* C19: no delete.  From one state to the next no stored key disappears and
\* the count of no prefix decreases; a key with an acknowledged upsert is
\* always read as Some, and GET never answers 404 for it.
C19_NoDelete ==
    /\ [][ /\ DOMAIN store \subseteq DOMAIN store'
           /\ \A prefix \in PrefixInputs :
                 ExecCount(store', count_stmt(prefix)) >= ExecCount(store, count_stmt(prefix))
         ]_vars
    /\ [](\A p \in ValidPaths :
             KeyOf(p) \in DOMAIN written =>
                /\ read(store, PathUuid[p].v).ok
                /\ read(store, PathUuid[p].v).v.some
                /\ (resp.op = "get" /\ resp.req.id = p /\ resp.calls = <<Call("read", TRUE)>>) =>
                      resp.status = 200)

\* A GET answered 200 for one of two stored keys.
C19_Witness ==
    /\ resp.op = "get" /\ resp.status = 200
    /\ DOMAIN store = {IdA, IdB}
    /\ resp.body.id = IdA
    /\ store[IdB].updated_at = 2

(***************************************************************************)
(* Startup, checked under SpecBoot                                         *)
(***************************************************************************)
\* The admin calls main made that check for existence.
Checks == SelectSeq(boot.calls, LAMBDA c : c.rpc \in {"get_instance", "get_database", "get_database_ddl"})

\* C20: startup gating.  The service serves only after configuration loading,
\* the three provisioning steps, client creation and bind have succeeded, in
\* that order: the instance and the database then exist and the statements of
\* the database pass the table test.  A process that has not reached that
\* point has served no request and completed a prefix of the steps; one that
\* ended did so on an error, before the last step, and takes no further step.
C20_StartupGating ==
    /\ [](boot.pc = "serving" =>
             /\ boot.steps = StartupOrder
             /\ boot.config.some /\ ~boot.err.some
             /\ [i \in 1..Len(Checks) |-> Checks[i].rpc] =
                   <<"get_instance", "get_database", "get_database_ddl">>
             /\ cloud.instance /\ cloud.database /\ table_exists(cloud.ddl))
    /\ [](boot.pc # "serving" =>
             /\ resp = NoResponse /\ store = <<>>
             /\ boot.steps = SubSeq(StartupOrder, 1, Len(boot.steps)))
    /\ [](boot.pc = "exited" => boot.err.some /\ Len(boot.steps) < Len(StartupOrder))
    /\ [](boot.err.some => boot.pc = "exited")
    /\ [][boot.pc # "exited"]_vars

\* A request served by a process that created instance, database and table
\* itself.
C20_Witness ==
    /\ boot.pc = "serving"
    /\ resp.op = "put" /\ resp.status = 200
    /\ Len(boot.calls) = 6
    /\ boot.calls[2] = AdminCall("create_instance", "regional-us-central1", "Done")
    /\ boot.calls[6].rpc = "update_database_ddl"
    /\ boot.config.v.service_port = 8080

(***************************************************************************)
(* from_config called more than once, checked under SpecProv               *)
(***************************************************************************)
\* The rpcs of the calls a task made, and those among them that create.
RpcsOf(p) == [i \in 1..Len(callers[p].calls) |-> callers[p].calls[i].rpc]

Creates == {"create_instance", "create_database", "update_database_ddl"}

\* C21: auto-provisioning is idempotent.  A from_config call that begins
\* after another call with the same configuration returned Ok does not fail:
\* every existence check it makes is answered Ok, it makes no create call,
\* and it returns Ok after exactly get_instance, get_database and
\* get_database_ddl; no step of a from_config call changes the stored
\* entries, and a call that creates nothing changes no resource.
C21_Idempotent ==
    /\ [](\A p \in Callers :
             callers[p].after_ok =>
                /\ callers[p].pc # "err"
                /\ \A i \in 1..Len(callers[p].calls) :
                      /\ callers[p].calls[i].rpc \notin Creates
                      /\ callers[p].calls[i].reply = "Ok"
                /\ callers[p].pc = "ok" =>
                      RpcsOf(p) = <<"get_instance", "get_database", "get_database_ddl">>)
    /\ [][(callers' # callers) => store' = store /\ written' = written]_vars
    /\ [][\A p \in Callers :
             (callers[p].after_ok /\ callers'[p] # callers[p]) => cloud' = cloud]_vars

\* A second call that returned Ok after the first call had created the three
\* resources and an entry had been stored.
C21_Witness ==
    \E p, q \in Callers :
        /\ callers[p].after_ok /\ callers[p].pc = "ok"
        /\ ~callers[q].after_ok /\ callers[q].pc = "ok"
        /\ Len(callers[q].calls) = 6
        /\ store # <<>>

(***************************************************************************)
(* The two reads of list_all, checked under SpecSvc                        *)
(***************************************************************************)
\* A step that is the count read of a list request, and one that is its data
\* read.
CountRead == list = Idle /\ list' # Idle

DataRead == list # Idle /\ list' = Idle

\* C22: list_all reads the count strictly before the data, each against the
\* store as it is at that read, and writes nothing.  The count read records
\* the number of matching entries of the store at that step; the data read
\* follows a count read, returns rows selected from the store at its own step
\* and the total_count recorded earlier; neither changes the store.  When the
\* store still holds as many matching entries at the data read as were
\* counted, the page has the length the count, limit and offset determine.
C22_CountThenData ==
    /\ [][CountRead =>
             /\ list'.total_count = ExecCount(store, count_stmt(query.prefix))
             /\ UNCHANGED <<store, clock, written>>]_vars
    /\ [][DataRead =>
             /\ resp'.op = "list"
             /\ resp'.calls[1] = Call("count", TRUE) /\ resp'.calls[2].op = "data"
             /\ UNCHANGED <<store, clock, written>>
             /\ resp'.status = 200 =>
                   /\ resp'.body.total_count = list.total_count
                   /\ \E rows \in ExecData(store, data_stmt(query.prefix, list.sort, list.limit, list.offset)) :
                         resp'.body.data = KvEntries(rows).v
                   /\ list.total_count = ExecCount(store, count_stmt(query.prefix)) =>
                         LET rest == IF list.total_count > list.offset
                                     THEN list.total_count - list.offset ELSE 0
                         IN  Len(resp'.body.data) =
                                IF list.limit.some THEN Min(list.limit.v, rest) ELSE rest]_vars
    /\ [][(resp'.op = "list" /\ resp' # resp /\ Len(resp'.calls) = 2) => DataRead]_vars

\* A list response whose total_count is no longer the number of matching
\* entries: a key was written between its two reads.
C22_Witness ==
    /\ Listed
    /\ resp.body.total_count = 0
    /\ Matching = 1
    /\ Len(resp.body.data) = 1

(***************************************************************************)
(* from_config called concurrently, checked under SpecProv                 *)
(***************************************************************************)
\* The create calls made so far for a resource, by all tasks.
CreateCalls(rpc) ==
    {<<p, i>> \in Callers \X (1..7) :
        i <= Len(callers[p].calls) /\ callers[p].calls[i].rpc = rpc}

\* C23: when tasks call from_config concurrently with one configuration, no
\* call fails and no resource has create called for it more than once.
C23_BothSucceed ==
    /\ \A p \in Callers : callers[p].pc # "err"
    /\ \A rpc \in Creates : Cardinality(CreateCalls(rpc)) <= 1

(***************************************************************************)
(* Failures and frame conditions of PUT and GET, checked under Spec        *)
(***************************************************************************)
\* A row with its value and both timestamps.
WholeRow(row) ==
    /\ DOMAIN row = {"data", "created_at", "updated_at"}
    /\ json_from_str(row.data).some
    /\ row.created_at >= 1 /\ row.updated_at >= 1

\* C24: atomic failure.  A PUT whose upsert the store fails answers 500
\* "Database error" and leaves every stored entry, and the set of stored keys,
\* exactly as before; every stored entry has its value and both timestamps at
\* all times; a GET whose read the store fails answers 500, never 404 or 200.
C24_AtomicFailure ==
    /\ [][(resp'.op = "put" /\ resp'.calls = <<Call("upsert", FALSE)>>) =>
             /\ resp'.status = 500
             /\ resp'.body = [error |-> [text |-> "Database error: ",
                                         cause |-> "Failed to upsert data to Spanner"]]
             /\ store' = store /\ written' = written /\ clock' = clock]_vars
    /\ [][(resp'.op = "put" /\ resp'.status # 200) => store' = store]_vars
    /\ [](\A k \in DOMAIN store : WholeRow(store[k]))
    /\ []((resp.op = "get" /\ resp.calls = <<Call("read", FALSE)>>) =>
             /\ resp.status = 500
             /\ resp.body = [error |-> [text |-> "Database error: ",
                                        cause |-> "Failed to query data from Spanner"]])

\* A PUT to a stored key answered 500, the entry still as the earlier PUT
\* left it.
C24_Witness ==
    /\ resp.op = "put" /\ resp.status = 500
    /\ PathUuid[resp.req.id].some
    /\ KeyOf(resp.req.id) \in DOMAIN store
    /\ store[KeyOf(resp.req.id)].updated_at = 1
    /\ clock = 2

\* The entries of st under keys other than key are those of st2.
SameElsewhere(st, st2, key) ==
    /\ DOMAIN st \ {key} = DOMAIN st2 \ {key}
    /\ \A k \in DOMAIN st \ {key} : st2[k] = st[k]

\* C25: upsert frame.  upsert(id, v) changes the entry under to_string(id)
\* and nothing else: every other key keeps its value, created_at and
\* updated_at, and the number of entries grows by one when the key was absent
\* and by zero otherwise.  This holds of upsert applied to every reachable
\* store and of every step that changes the store.
C25_UpsertFrame ==
    /\ [](\A p \in ValidPaths : \A b \in {x \in BodyInputs : BodyJson[x].some} :
             LET st2 == upsert(store, PathUuid[p].v, BodyJson[b].v, clock + 1)
             IN  /\ SameElsewhere(store, st2, KeyOf(p))
                 /\ KeyOf(p) \in DOMAIN st2
                 /\ Cardinality(DOMAIN st2) =
                       Cardinality(DOMAIN store) + (IF KeyOf(p) \in DOMAIN store THEN 0 ELSE 1))
    /\ [][(store' # store) =>
             /\ resp'.op = "put" /\ resp'.status = 200
             /\ resp'.body.id = KeyOf(resp'.req.id)
             /\ SameElsewhere(store, store', resp'.body.id)
             /\ Cardinality(DOMAIN store') =
                   Cardinality(DOMAIN store) + (IF resp'.body.id \in DOMAIN store THEN 0 ELSE 1)]_vars

\* An upsert through the braced form of IdA replaced the entry of IdA while
\* the entry of IdB, written earlier, kept its timestamps.
C25_Witness ==
    /\ resp.op = "put" /\ resp.status = 200
    /\ Head(resp.req.id) = "{"
    /\ DOMAIN store = {IdA, IdB}
    /\ store[IdB].updated_at = 1 /\ store[IdB].created_at = 1
    /\ store[IdA].updated_at = 2
    /\ written[IdB].ts = 1

(***************************************************************************)
(* Read-only operations, checked under SpecSvc                             *)
(***************************************************************************)
\* C26: read-only operations leave the store unchanged.  A step that answers
\* GET /kv/{id}, GET /kv or GET /health, or that is the count read of a list
\* request, whether the store answered or failed, creates, modifies and
\* removes no entry and changes no timestamp; so does every step whose request
\* is refused or fails; read, the two list statements and their results are
\* the same before and after such a step.
C26_ReadOnly ==
    /\ [][(resp'.op \in {"get", "list", "health"} \/ CountRead \/ DataRead) =>
             /\ UNCHANGED <<store, clock, written>>
             /\ \A p \in {IdA, IdB} : read(store', PathUuid[p].v) = read(store, PathUuid[p].v)
             /\ \A prefix \in PrefixInputs :
                   ExecCount(store', count_stmt(prefix)) = ExecCount(store, count_stmt(prefix))]_vars
    /\ [][(resp'.op = "put" /\ resp'.status # 200) => UNCHANGED <<store, clock, written>>]_vars
    /\ [][(store' # store) => (resp'.op = "put" /\ resp'.calls = <<Call("upsert", TRUE)>>)]_vars

\* A GET answered 200 between the two reads of a list request, the entry
\* still carrying the timestamp of its upsert.
C26_Witness ==
    /\ resp.op = "get" /\ resp.status = 200
    /\ list # Idle
    /\ store[resp.body.id].updated_at = 1
    /\ clock = 1

(***************************************************************************)
(* Canonical keys, checked under Spec                                      *)
(***************************************************************************)
\* 36 characters: lower-case hexadecimal digits in groups of 8-4-4-4-12,
\* separated by hyphens.
CanonicalKey(k) ==
    /\ Len(k) = 36
    /\ \A i \in 1..36 :
          IF i \in HyphenPos THEN k[i] = "-" ELSE k[i] \in {HexLower[j] : j \in 1..16}

\* The keys list_all returns for a sort order, without prefix or limit.
ListedKeys(sort) ==
    UNION {{rows[i].id : i \in 1..Len(rows)} : rows \in ExecData(store, data_stmt(None, sort, None, 0))}

\* C27: canonical keys.  Every stored key, every key list_all returns and
\* every id in a 200 response of PUT or GET is the 36-character lower-case
\* hyphenated rendering of the parsed identifier.  Path strings that parse to
\* one identifier address one entry: no two stored keys parse to the same
\* identifier, and after a PUT through one such path, read through every other
\* returns the value just written.
C27_CanonicalKeys ==
    /\ [](/\ \A k \in DOMAIN store : CanonicalKey(k) /\ to_string(parse_str(k).v) = k
          /\ \A k1, k2 \in DOMAIN store : parse_str(k1) = parse_str(k2) => k1 = k2
          /\ \A sort \in {"KeyAsc", "UpdatedDesc"} : \A k \in ListedKeys(sort) : CanonicalKey(k)
          /\ \A p, q \in ValidPaths : PathUuid[p] = PathUuid[q] => KeyOf(p) = KeyOf(q)
          /\ (resp.op \in {"put", "get"} /\ resp.status = 200) =>
                /\ CanonicalKey(resp.body.id)
                /\ resp.body.id = KeyOf(resp.req.id)
                /\ parse_str(resp.body.id) = PathUuid[resp.req.id])
    /\ [][(resp'.op = "put" /\ resp'.status = 200) =>
             \A q \in ValidPaths :
                PathUuid[q] = PathUuid[resp'.req.id] =>
                   read(store', PathUuid[q].v) = [ok |-> TRUE, v |-> Some(BodyJson[resp'.req.body].v)]]_vars
    /\ [][(resp'.op = "get" /\ resp'.status = 200) =>
             resp'.body.data = written[KeyOf(resp'.req.id)].v]_vars

\* A GET through the upper-case form answered 200 with the lower-case id while
\* both keys are stored.
C27_Witness ==
    /\ resp.op = "get" /\ resp.status = 200
    /\ resp.req.id = Hyph("A", "A")
    /\ resp.body.id = IdA
    /\ DOMAIN store = {IdA, IdB}

(***************************************************************************)
(* auto_provision, checked under SpecBoot                                  *)
(***************************************************************************)
\* The rpcs of the admin calls main made, in order.
BootRpcs == [i \in 1..Len(boot.calls) |-> boot.calls[i].rpc]

\* The admin calls are made in the order instance, database, table, each
\* create directly after the existence check of its resource, and nothing
\* follows a call that failed.
InProvisioningOrder ==
    /\ \A i \in 1..Len(BootRpcs) :
          /\ BootRpcs[i] = "get_instance" => i = 1
          /\ BootRpcs[i] = "create_instance" => i > 1 /\ BootRpcs[i - 1] = "get_instance"
          /\ BootRpcs[i] = "get_database" =>
                i > 1 /\ boot.calls[i - 1] \in
                   {AdminCall("get_instance", boot.calls[i - 1].arg, "Ok"),
                    AdminCall("create_instance", boot.calls[i - 1].arg, "Done")}
          /\ BootRpcs[i] = "create_database" => i > 1 /\ BootRpcs[i - 1] = "get_database"
          /\ BootRpcs[i] = "get_database_ddl" =>
                i > 1 /\ boot.calls[i - 1] \in
                   {AdminCall("get_database", boot.calls[i - 1].arg, "Ok"),
                    AdminCall("create_database", boot.calls[i - 1].arg, "Done")}
          /\ BootRpcs[i] = "update_database_ddl" => i > 1 /\ BootRpcs[i - 1] = "get_database_ddl"
          /\ boot.calls[i].reply \notin {"Ok", "Done", "NotFound"} => i = Len(BootRpcs)
    /\ \A rpc \in {"get_instance", "get_database", "get_database_ddl"} \cup Creates :
          Cardinality({i \in 1..Len(BootRpcs) : BootRpcs[i] = rpc}) <= 1

\* auto_provision has returned Ok.
Provisioned == boot.pc \in {"client", "bind", "serving"}

\* C28: provisioning order and postcondition.  auto_provision makes its admin
\* calls in the order instance, database, table, creating only what its check
\* found absent and nothing after a failure; whenever it has returned Ok the
\* instance, the database and the table kv_store exist.
C28_OrderAndPostcondition ==
    /\ InProvisioningOrder
    /\ Provisioned => cloud.instance /\ cloud.database /\ kv_store \in tables(cloud.ddl)

\* C29: provisioning error handling.  create_instance and create_database are
\* called only directly after an existence check of that resource answered
\* NotFound, and update_database_ddl only directly after get_database_ddl
\* succeeded with no statement passing the table test; an existence check or
\* DDL fetch that fails otherwise is the last admin call and ends startup in
\* an error; a step that finds its resource makes no create call and changes
\* no resource.
C29_CreateOnlyOnNotFound ==
    /\ [](\A i \in 1..Len(boot.calls) :
             LET c == boot.calls[i]
             IN  /\ c.rpc = "create_instance" =>
                       i > 1 /\ boot.calls[i - 1].rpc = "get_instance"
                             /\ boot.calls[i - 1].reply = "NotFound"
                 /\ c.rpc = "create_database" =>
                       i > 1 /\ boot.calls[i - 1].rpc = "get_database"
                             /\ boot.calls[i - 1].reply = "NotFound"
                 /\ c.rpc = "update_database_ddl" =>
                       i > 1 /\ boot.calls[i - 1].rpc = "get_database_ddl"
                             /\ boot.calls[i - 1].reply = "Ok"
                 /\ c.reply = "Error" =>
                       /\ i = Len(boot.calls)
                       /\ boot.pc = "exited" /\ boot.err.some
                 /\ (c.reply = "Ok" /\ c.rpc \in {"get_instance", "get_database"}) =>
                       (i < Len(boot.calls) => boot.calls[i + 1].rpc \notin Creates))
    /\ [][(boot.pc = "ensure_instance" /\ cloud.instance) =>
             cloud' = cloud /\ Len(boot'.calls) = Len(boot.calls) + 1]_vars
    /\ [][(boot.pc = "ensure_database" /\ cloud.database) =>
             cloud' = cloud /\ Len(boot'.calls) = Len(boot.calls) + 1]_vars
    /\ [][boot.pc = "ensure_table" =>
             IF table_exists(cloud.ddl)
             THEN cloud' = cloud /\ Len(boot'.calls) = Len(boot.calls) + 1
             ELSE boot'.calls[Len(boot'.calls)].rpc = "update_database_ddl"
                     => boot'.calls[Len(boot'.calls) - 1].reply = "Ok"]_vars

\* Startup ended on a failed get_database after it had created the instance:
\* no database was created.
C29_Witness ==
    /\ boot.pc = "exited"
    /\ Len(boot.calls) = 3
    /\ boot.calls[1].reply = "NotFound"
    /\ boot.calls[2] = AdminCall("create_instance", "emulator-config", "Done")
    /\ boot.calls[3] = AdminCall("get_database", "d", "Error")
    /\ cloud = [instance |-> TRUE, database |-> FALSE, ddl |-> {}]

(***************************************************************************)
(* Stateless requests, checked under SpecSvc                               *)
(***************************************************************************)
\* The status and body of a response as a function of the request alone, or
\* of the request, the results of its store calls and the store contents at
\* those calls.
PutAnswer(req, calls) ==
    IF ~json_content_type(req.content_type) THEN MissingJsonContentType
    ELSE IF ~json_from_str(req.body).some THEN JsonRejection
    ELSE IF ~parse_str(req.id).some THEN into_response(InvalidUuid(req.id))
    ELSE IF calls = <<Call("upsert", TRUE)>>
    THEN [status |-> 200, body |-> [id |-> to_string(parse_str(req.id).v)]]
    ELSE into_response(DatabaseError("Failed to upsert data to Spanner"))

GetAnswer(req, calls, st) ==
    IF ~parse_str(req.id).some THEN into_response(InvalidUuid(req.id))
    ELSE IF calls # <<Call("read", TRUE)>>
    THEN into_response(DatabaseError("Failed to query data from Spanner"))
    ELSE LET key == to_string(parse_str(req.id).v)
         IN  IF key \notin DOMAIN st THEN into_response(KeyNotFound(parse_str(req.id).v))
             ELSE IF ~json_from_str(st[key].data).some
             THEN into_response(DatabaseError("Failed to deserialize JSON data"))
             ELSE [status |-> 200, body |-> [id |-> key, data |-> json_from_str(st[key].data).v]]

HealthAnswer(req) ==
    IF req.outcome = "row" THEN [status |-> 200, body |-> [status |-> "healthy"]]
    ELSE [status |-> 503,
          body |-> [status |-> "unhealthy",
                    error |-> [text |-> "Cannot connect to database: ",
                               cause |-> health_check(req.outcome).cause]]]

\* The answers of a list request from the count it read and the store at its
\* data read: one for each order the data statement leaves open.
ListAnswers(req, calls, total_count, st) ==
    IF ~query_accepts(req) THEN {QueryRejection}
    ELSE IF ~parse_sort(req.sort).some THEN {into_response(InvalidQueryParam(req.sort.v))}
    ELSE IF calls = <<Call("count", FALSE)>>
    THEN {into_response(DatabaseError("Failed to execute count query"))}
    ELSE IF calls[2] = Call("data", FALSE)
    THEN {into_response(DatabaseError("Failed to execute data query"))}
    ELSE {IF KvEntries(rows).some
          THEN [status |-> 200, body |-> [data |-> KvEntries(rows).v, total_count |-> total_count]]
          ELSE into_response(DatabaseError("Failed to deserialize JSON data")) :
             rows \in ExecData(st, data_stmt(req.prefix, parse_sort(req.sort).v, req.limit,
                                             IF req.offset.some THEN req.offset.v ELSE 0))}

StatusBody(r) == [status |-> r.status, body |-> r.body]

====
